---- MODULE Spec2Model ----
(***************************************************************************)
(* Model of the ft8monitor aggregation engine                              *)
(* (src/webserver/data_server.py, Data_Server.save_monitor_data) together  *)
(* with the two persistence backends it is deployed with                   *)
(* (src/webserver/sqlite_server.py, src/webserver/aws_server.py).          *)
(*                                                                         *)
(* One ingest is a sequence of steps, one per Persistence Port call, so    *)
(* that request handlers can be interleaved at exactly the points where    *)
(* the code talks to the store.                                            *)
(***************************************************************************)
EXTENDS Integers, Sequences, FiniteSets, TLC

\* ------------------------------------------------------------------ bounds

\* Budget of one run: an ingest costs the length of its batch, and 1 when
\* the batch is empty.
MaxWork == 3

\* Persistence Port calls of one run that fail or raise.
MaxFaults == 1

\* --------------------------------------------------------------- constants

\* Python's None, for the string-valued fields and for the return value.
NONE == "None"

\* The width of a minute and of an hour bucket, in seconds.
MINUTE == 60
HOUR == 3600

\* The f'{err}' that save_monitor_data returns from its except clause.
ERR == "err"

Backends == {"sqlite", "dynamodb"}
Monitors == {"ft8mon", "testStation"}
Bands == {"50.313"}
Handlers == {"h1", "h2"}

\* Monitor_Message values the monitor posts.  Only the fields the engine
\* reads are kept (gtime, snr, caller, country, cq); the others are payload
\* that is carried unchanged through json.dumps / json.loads.
MsgPool ==
    { [gtime |-> 7205,  snr |-> -5,  caller |-> "WB9XYZ", country |-> "United States", cq |-> "4"],
      [gtime |-> 7210,  snr |-> -15, caller |-> "KA1ABC", country |-> "United States", cq |-> "5"],
      [gtime |-> 7220,  snr |-> -7,  caller |-> NONE,     country |-> NONE,            cq |-> NONE],
      [gtime |-> 7265,  snr |-> 4,   caller |-> "D1X",    country |-> NONE,            cq |-> NONE],
      [gtime |-> 10810, snr |-> -10, caller |-> "KA1ABC", country |-> "United States", cq |-> "5"] }

\* The messages with a caller of three different minutes, two of them in
\* one hour.
FaultPool == {m \in MsgPool : m.gtime \in {7205, 7265, 10810}}

\* Values time.time() returns when a batch has no message with a caller.
ClockTimes == {7230, 10830}

\* Batches of at most n messages.
Batches(pool, n) == UNION { [1..k -> pool] : k \in 0..n }

\* What a Persistence Port call can do besides succeeding: "fail" is an
\* error the backend catches and reports (db_read_* returns [], db_upsert_*
\* returns a message), "raise" is an exception that leaves the port.
Outcomes == {"ok", "fail", "raise"}

\* ----------------------------------------------------------------- helpers

EmptyMap == [k \in {} |-> 0]

Min(a, b) == IF a <= b THEN a ELSE b
Max(a, b) == IF a >= b THEN a ELSE b

\* Python's round(n / d) for integers n and d > 0: true division, then
\* rounding to the nearest integer, ties to the even one.
PyRound(n, d) ==
    LET q == n \div d
        r == n - q * d
    IN  IF 2 * r < d THEN q
        ELSE IF 2 * r > d THEN q + 1
        ELSE IF q % 2 = 0 THEN q ELSE q + 1

\* d[key] = 1 if d.get(key) is None else d[key] + 1
Incr(d, key) ==
    IF key \in DOMAIN d THEN [d EXCEPT ![key] = @ + 1] ELSE d @@ (key :> 1)

\* for k, n in new.items(): old[k] = n if old.get(k) is None else old[k] + n
MergeCounts(old, new) ==
    [k \in DOMAIN old \cup DOMAIN new |->
        (IF k \in DOMAIN old THEN old[k] ELSE 0)
      + (IF k \in DOMAIN new THEN new[k] ELSE 0)]

\* ------------------------------------------------- grouping (lines 106-130)

\* minutes[mt] = {...} for the first message of a minute.
NewGroup(mt, msg) ==
    [mt        |-> mt,
     messages  |-> <<msg>>,
     total     |-> 1,
     snr       |-> msg.snr,
     countries |-> IF msg.country # NONE THEN (msg.country :> 1) ELSE EmptyMap,
     cqs       |-> IF msg.cq # NONE THEN (msg.cq :> 1) ELSE EmptyMap,
     callers   |-> (msg.caller :> 1)]

\* (faulty variant of AddToGroup: the caller of the message is not counted)
AddToGroupCallerUncounted(d, msg) ==
    [d EXCEPT !.messages  = Append(@, msg),
              !.total     = @ + 1,
              !.snr       = @ + msg.snr,
              !.countries = IF msg.country # NONE THEN Incr(@, msg.country) ELSE @,
              !.cqs       = IF msg.cq # NONE THEN Incr(@, msg.cq) ELSE @]

\* The else branch: a further message of a minute already in the dict.
AddToGroup(d, msg) ==
    [d EXCEPT !.messages  = Append(@, msg),
              !.total     = @ + 1,
              !.snr       = @ + msg.snr,
              !.callers   = Incr(@, msg.caller),
              !.countries = IF msg.country # NONE THEN Incr(@, msg.country) ELSE @,
              !.cqs       = IF msg.cq # NONE THEN Incr(@, msg.cq) ELSE @]

\* One turn of "for msg in data", without the test of msg.caller.
CountMsg(acc, msg) ==
    LET mt == msg.gtime - (msg.gtime % MINUTE)
        at == {k \in DOMAIN acc.minutes : acc.minutes[k].mt = mt}
    IN  [minutes |-> IF at = {}
                     THEN Append(acc.minutes, NewGroup(mt, msg))
                     ELSE [acc.minutes EXCEPT ![CHOOSE k \in at : TRUE] = AddToGroup(@, msg)],
         m_begin |-> IF acc.m_begin = 0 THEN mt ELSE Min(acc.m_begin, mt),
         m_end   |-> IF acc.m_end = 0 THEN mt ELSE Max(acc.m_end, mt)]

\* (faulty variant of AddMsg: the message without a caller is counted too)
AddMsgNoSkip(acc, msg) == CountMsg(acc, msg)

\* One turn of "for msg in data": a message without a caller is skipped.
AddMsg(acc, msg) ==
    IF msg.caller = NONE THEN acc ELSE CountMsg(acc, msg)

RECURSIVE GroupFrom(_, _, _)
GroupFrom(acc, data, i) ==
    IF i > Len(data) THEN acc ELSE GroupFrom(AddMsg(acc, data[i]), data, i + 1)

\* The dict "minutes" in insertion order, with m_begin and m_end.
GroupMessages(data) ==
    GroupFrom([minutes |-> <<>>, m_begin |-> 0, m_end |-> 0], data, 1)

\* r['snr'] = round(r['snr'] / r['total'])
RoundGroup(r) == [r EXCEPT !.snr = PyRound(r.snr, r.total)]

\* ------------------------------------------------------------------ records

\* Minutes_Record(ctime=mt, ..., total=r['total'], snr=r['snr'], ...)
Minutes_Record(monitor, band, r) ==
    [ctime |-> r.mt, monitor |-> monitor, band |-> band,
     messages |-> r.messages, total |-> r.total, snr |-> r.snr,
     countries |-> r.countries, cqs |-> r.cqs, callers |-> r.callers]

\* The idle record: the monitor is alive and decoded nothing.
IdleMinute(monitor, band, ctime) ==
    [ctime |-> ctime, monitor |-> monitor, band |-> band,
     messages |-> <<>>, total |-> 0, snr |-> 0,
     countries |-> EmptyMap, cqs |-> EmptyMap, callers |-> EmptyMap]

\* Hours_Record(ctime=..., total=0, snr=0, countries={}, cqs={})
Hours_Record(monitor, band, ctime) ==
    [ctime |-> ctime, monitor |-> monitor, band |-> band,
     total |-> 0, snr |-> 0, countries |-> EmptyMap, cqs |-> EmptyMap]

\* ------------------------------------------------ merges (lines 166-237)

\* (faulty variant of MergeMinute: the two means are averaged without their weights)
MergeMinuteUnweighted(dbrec, r) ==
    [dbrec EXCEPT !.messages  = @ \o r.messages,
                  !.snr       = PyRound(dbrec.snr + r.snr, 2),
                  !.total     = @ + r.total,
                  !.countries = MergeCounts(@, r.countries),
                  !.cqs       = MergeCounts(@, r.cqs),
                  !.callers   = MergeCounts(@, r.callers)]

\* (faulty variant of MergeMinute: a group whose messages the record already holds
\* is not merged again)
MergeMinuteIdempotent(dbrec, r) ==
    IF \A k \in 1..Len(r.messages) :
          \E j \in 1..Len(dbrec.messages) : dbrec.messages[j] = r.messages[k]
    THEN dbrec
    ELSE [dbrec EXCEPT !.messages  = @ \o r.messages,
                       !.snr       = PyRound(dbrec.snr * dbrec.total + r.snr * r.total,
                                             dbrec.total + r.total),
                       !.total     = @ + r.total,
                       !.countries = MergeCounts(@, r.countries),
                       !.cqs       = MergeCounts(@, r.cqs),
                       !.callers   = MergeCounts(@, r.callers)]

\* The record of the minute exists: the group r is merged into dbrec.
MergeMinute(dbrec, r) ==
    [dbrec EXCEPT !.messages  = @ \o r.messages,
                  !.snr       = PyRound(dbrec.snr * dbrec.total + r.snr * r.total,
                                        dbrec.total + r.total),
                  !.total     = @ + r.total,
                  !.countries = MergeCounts(@, r.countries),
                  !.cqs       = MergeCounts(@, r.cqs),
                  !.callers   = MergeCounts(@, r.callers)]

\* One turn of "for mt, r in minutes.items()" of the hours part: the group
\* r is folded into hr_nm[r_hour].  The total is raised first and the mean
\* is computed from the raised total, in the order of the statements.
FoldIntoHour(h, r) ==
    LET t == h.total + r.total
    IN  [h EXCEPT !.total     = t,
                  !.snr       = PyRound(h.snr * t + r.snr * r.total, t + r.total),
                  !.countries = MergeCounts(@, r.countries),
                  !.cqs       = MergeCounts(@, r.cqs)]

FoldMinute(monitor, band, nm, r) ==
    LET r_hour == r.mt - (r.mt % HOUR)
        at == {k \in DOMAIN nm : nm[k].ctime = r_hour}
    IN  IF at = {}
        THEN Append(nm, FoldIntoHour(Hours_Record(monitor, band, r_hour), r))
        ELSE [nm EXCEPT ![CHOOSE k \in at : TRUE] = FoldIntoHour(@, r)]

RECURSIVE HoursFrom(_, _, _, _, _)
HoursFrom(monitor, band, nm, minutes, i) ==
    IF i > Len(minutes) THEN nm
    ELSE HoursFrom(monitor, band, FoldMinute(monitor, band, nm, minutes[i]), minutes, i + 1)

\* The dict hr_nm in insertion order.
NewHours(monitor, band, minutes) == HoursFrom(monitor, band, <<>>, minutes, 1)

\* The record of the hour exists: c is merged into rec.
MergeHour(rec, c) ==
    [rec EXCEPT !.snr       = PyRound(rec.snr * rec.total + c.snr * c.total,
                                      rec.total + c.total),
                !.total     = @ + c.total,
                !.countries = MergeCounts(@, c.countries),
                !.cqs       = MergeCounts(@, c.cqs)]

\* --------------------------------------------------------- Persistence Port

SameKey(a, b) == a.ctime = b.ctime /\ a.monitor = b.monitor /\ b.band = a.band

\* Sqlite_Server.db_upsert_*: SELECT COUNT(*) on (ctime, monitor, band),
\* then INSERT or UPDATE.  Both tables declare PRIMARY KEY (ctime), so an
\* INSERT beside a row of another monitor or band with the same ctime raises
\* sqlite3.IntegrityError, which is caught and reported.
SqliteUpsert(tb, data) ==
    IF {row \in tb : SameKey(row, data)} = {}
    THEN IF \E row \in tb : row.ctime = data.ctime
         THEN [tb |-> tb, ret |-> "sqlite err"]
         ELSE [tb |-> tb \cup {data}, ret |-> NONE]
    ELSE [tb |-> {row \in tb : ~SameKey(row, data)} \cup {data}, ret |-> NONE]

\* Dynamodb_Server.db_upsert_*: put_item replaces the item of the key
\* (monitor_band, ctime).
DynamodbUpsert(tb, data) ==
    [tb |-> {row \in tb : ~SameKey(row, data)} \cup {data}, ret |-> NONE]

\* (faulty variant of db_upsert: the record is added beside the one of its key)
UpsertAlwaysInsert(b, tb, data, o) ==
    [tb |-> tb \cup {data}, ret |-> NONE]

\* db_upsert_minute / db_upsert_hour of the backend in use.  o is what the
\* backend does: a reported failure and an exception leave the table alone.
db_upsert(b, tb, data, o) ==
    IF o = "ok"
    THEN IF b = "sqlite" THEN SqliteUpsert(tb, data) ELSE DynamodbUpsert(tb, data)
    ELSE [tb |-> tb, ret |-> "port err"]

\* RETURN_RECORD_LIMIT of Sqlite_Server and of Dynamodb_Server.
SQLITE_RETURN_RECORD_LIMIT == 100
DYNAMODB_RETURN_RECORD_LIMIT == 720

RETURN_RECORD_LIMIT(b) ==
    IF b = "sqlite" THEN SQLITE_RETURN_RECORD_LIMIT ELSE DYNAMODB_RETURN_RECORD_LIMIT

\* LIMIT n of the SELECT, Limit=n of the query: both backends walk the
\* rows of the range in the order of ctime (the index of the primary key,
\* the range key) and stop after n rows.
FirstRows(rows, n) ==
    IF Cardinality(rows) <= n THEN rows
    ELSE {r \in rows : Cardinality({s \in rows : s.ctime < r.ctime}) < n}

\* db_read_minutes / db_read_hours of backend b: the rows of
\* (monitor, band) with begin <= ctime <= end, at most RETURN_RECORD_LIMIT
\* of them; [] when the backend reports an error.
db_read(b, tb, monitor, band, begin, end, o) ==
    IF o = "ok"
    THEN FirstRows({row \in tb : /\ row.monitor = monitor /\ row.band = band
                                 /\ begin <= row.ctime /\ row.ctime <= end},
                   RETURN_RECORD_LIMIT(b))
    ELSE {}

\* (faulty variant of fetch_in_minutes: begin and end are passed on as given)
FetchUnfloored(b, tb, monitor, band, begin, end, o) ==
    db_read(b, tb, monitor, band, begin, end, o)

\* fetch_in_minutes: begin and end are floored to the minute.
fetch_in_minutes(b, tb, monitor, band, begin, end, o) ==
    db_read(b, tb, monitor, band, begin - (begin % MINUTE), end - (end % MINUTE), o)

\* fetch_in_hours: begin and end are floored to the hour.
fetch_in_hours(b, tb, monitor, band, begin, end, o) ==
    db_read(b, tb, monitor, band, begin - (begin % HOUR), end - (end % HOUR), o)

\* -------------------------------------------------------------------- state

VARIABLES
    backend,      \* the Data_Server subclass serving the requests
    tb_minutes,   \* table ft8mon_minutes: a set of Minutes_Record rows
    tb_hours,     \* table ft8mon_hours: a set of Hours_Record rows
    frame,        \* per request handler: the locals of its save_monitor_data call
    work,         \* the part of MaxWork used so far
    faults,       \* the part of MaxFaults used so far
    fetched,      \* the last fetch_in_minutes / fetch_in_hours call and its result
    clock,        \* time.time() of the monitors and of the server, in seconds
    sender,       \* per monitor: the sender thread of its wsjtx_msg_server
    tq,           \* per monitor: the Queue between its receive loop and its sender
    codec,        \* a telegram on its way through as_bytes and from_bytes
    udp,          \* the UDP_Connector of a wsjtx_msg_server and its main loop
    cty,          \* the CTY object of a wsjtx_msg_server
    proc          \* main() of a wsjtx_msg_server or of a rsp1_forwarder: its
                  \* threads and job_done

\* What an ingest leaves alone.
monitorVars == <<codec, udp, cty, proc>>

otherVars == <<fetched, clock, sender, tq, monitorVars>>

vars == <<backend, tb_minutes, tb_hours, frame, work, faults, otherVars>>

\* No read has been asked for.
NoFetch ==
    [called |-> FALSE, table |-> NONE, monitor |-> NONE, band |-> NONE,
     begin |-> 0, end |-> 0, recs |-> {}]

\* A monitor whose wsjtx_msg_server has not been started.  Besides the
\* loop counter of the sender, the record keeps when the sender was started
\* (boot), when it posted last (last_post) and every message its receive
\* loop has put on the queue (heard).
NotStarted ==
    [started |-> FALSE, slept |-> 0, boot |-> 0, last_post |-> 0, heard |-> <<>>]

\* No monitor runs.
InitStations ==
    /\ clock = 0
    /\ sender = [m \in Monitors |-> NotStarted]
    /\ tq = [m \in Monitors |-> <<>>]

\* No telegram is under way.
NoCodec ==
    [pc |-> "idle", tel |-> [class |-> -1, kw |-> <<>>], err |-> "", parts |-> <<>>,
     bytes |-> <<>>, k |-> 0, out |-> [err |-> "", class |-> -1, kw |-> <<>>]]

\* No UDP_Connector has been made.  Besides the attributes of the
\* connector, the record keeps where the main loop is (pc), the exception
\* that ended it and the call that raised it (exc, where), the datagrams
\* waiting in the socket and the number that arrived, one entry per call of
\* receive (log), the number of heartbeats sent and what was sent where
\* (sendto), the names set_peer was called with, and the Queue the connector
\* puts its messages on (msg_pipe, the tq of main()).
NoUdp ==
    [pc |-> "idle", peer |-> {}, adr |-> <<>>, heartbeat_seen |-> FALSE,
     socket |-> <<>>, arrived |-> 0, log |-> <<>>, sent |-> 0,
     exc |-> NONE, where |-> NONE, sendto |-> <<>>, set_peer |-> <<>>,
     msg_pipe |-> <<>>]

\* No CTY object has been made.  Besides the attributes of the object the
\* record keeps the locals of __init__ (current_country, alias_lines), the
\* exception that ended it (exc), the lines and the country blocks read so
\* far (lines, blocks), the last call of callsign_lookup with its result
\* (asked, found) and the last call of parse_wsjtx_decode_msg with its
\* result (msg, pm).
NoCty ==
    [pc |-> "idle", exact_callsign |-> <<>>, prefix |-> <<>>, prf_max |-> 0,
     countries |-> <<>>, current_country |-> <<>>, alias_lines |-> <<>>,
     exc |-> NONE, lines |-> <<>>, blocks |-> <<>>, asked |-> <<>>, found |-> <<>>,
     msg |-> <<>>, pm |-> <<>>]

\* main() has not been called.  The record keeps where the main thread is
\* (main), the global job_done, the sender thread ts (where it is, the
\* seconds it has slept in its for loop, its list ml), the lists
\* handle_msg was called with that were not empty (posted) and those among
\* them whose POST did not reach the web server (failed).
NoProc ==
    [main |-> "idle", job_done |-> FALSE,
     ts |-> [pc |-> "idle", slept |-> 0, ml |-> <<>>], posted |-> <<>>,
     failed |-> <<>>]

\* The components an ingest does not touch, before they are used.
InitOther ==
    /\ fetched = NoFetch
    /\ InitStations
    /\ codec = NoCodec
    /\ udp = NoUdp
    /\ cty = NoCty
    /\ proc = NoProc

\* The locals of a handler that has not been called yet.  Besides the
\* locals of the code, a frame records what the call did (log, write_err,
\* raised, escaped), the tables as the call found them (pre_minutes,
\* pre_hours) and the call before it (last).
IdleFrame ==
    [pc |-> "idle", monitor |-> NONE, band |-> NONE, data |-> <<>>,
     current_time |-> 0,
     minutes |-> <<>>, idx |-> 1, recs |-> {}, m_begin |-> 0, m_end |-> 0,
     hr_db |-> {}, hr_nm |-> <<>>, result |-> NONE,
     log |-> <<>>, write_err |-> FALSE, raised |-> FALSE, escaped |-> FALSE,
     pre_minutes |-> {}, pre_hours |-> {},
     last |-> [monitor |-> NONE, band |-> NONE, data |-> <<>>, called |-> FALSE]]

Init ==
    /\ backend \in Backends
    /\ tb_minutes = {}
    /\ tb_hours = {}
    /\ frame = [p \in Handlers |-> IdleFrame]
    /\ work = 0
    /\ faults = 0
    /\ InitOther

\* The Lambda deployment: concurrent handlers over DynamoDB.
InitConc ==
    /\ backend = "dynamodb"
    /\ tb_minutes = {}
    /\ tb_hours = {}
    /\ frame = [p \in Handlers |-> IdleFrame]
    /\ work = 0
    /\ faults = 0
    /\ InitOther

\* (faulty variant of HandleException: the exception is raised again)
HandleExceptionRethrow(f) ==
    [f EXCEPT !.pc = "done", !.raised = TRUE, !.escaped = TRUE]

\* except Exception as err: return f'{err}'
HandleException(f) ==
    [f EXCEPT !.pc = "done", !.result = ERR, !.raised = TRUE]

\* return None
ReturnNone(f) == [f EXCEPT !.pc = "done", !.result = NONE]

\* The fault budget: a call that does not succeed uses one unit.
Fault(o) ==
    /\ o # "ok" => faults < MaxFaults
    /\ faults' = IF o = "ok" THEN faults ELSE faults + 1

Logged(f, op, table, ctime) == [f EXCEPT !.log = Append(@, <<op, table, ctime>>)]

\* The locals of handler p when it enters save_monitor_data(monitor, band,
\* data) at time now: the grouping of the batch, and the clock when no
\* message has a caller.
Call(p, monitor, band, data, now) ==
    LET g == GroupMessages(data)
        none == g.minutes = <<>>
    IN  [IdleFrame EXCEPT
            !.pc = IF none THEN "idle_read_minute" ELSE "read_minute",
            !.monitor = monitor, !.band = band, !.data = data,
            !.minutes = g.minutes,
            !.current_time = IF none THEN now ELSE 0,
            !.m_begin = IF none THEN now - (now % MINUTE) ELSE g.m_begin,
            !.m_end = IF none THEN now - (now % MINUTE) ELSE g.m_end,
            !.pre_minutes = tb_minutes, !.pre_hours = tb_hours,
            !.last = [monitor |-> frame[p].monitor, band |-> frame[p].band,
                      data |-> frame[p].data,
                      called |-> frame[p].pc = "done"]]

\* A call of save_monitor_data(monitor, band, data) by handler p, up to its
\* first Persistence Port call.
Start(p, monitor, band, data, now) ==
    /\ frame[p].pc \in {"idle", "done"}
    /\ work + Max(1, Len(data)) <= MaxWork
    /\ work' = work + Max(1, Len(data))
    /\ frame' = [frame EXCEPT ![p] = Call(p, monitor, band, data, now)]
    /\ UNCHANGED <<otherVars, backend, tb_minutes, tb_hours, faults>>

\* No message with a caller: recs = self.fetch_in_minutes(current minute).
IdleReadMinute(p, o) ==
    /\ frame[p].pc = "idle_read_minute"
    /\ Fault(o)
    /\ LET f == Logged(frame[p], "read", "minutes", frame[p].m_begin)
           recs == fetch_in_minutes(backend, tb_minutes, f.monitor, f.band, f.m_begin, f.m_end, o)
       IN  frame' = [frame EXCEPT ![p] =
               IF o = "raise" THEN HandleException(f)
               ELSE [f EXCEPT !.recs = recs,
                              !.pc = IF recs = {} THEN "idle_write_minute" ELSE "read_hours"]]
    /\ UNCHANGED <<otherVars, backend, tb_minutes, tb_hours, work>>

\* len(recs) == 0: the idle record of the current minute is written.
IdleWriteMinute(p, o) ==
    /\ frame[p].pc = "idle_write_minute"
    /\ Fault(o)
    /\ LET f == Logged(frame[p], "write", "minutes", frame[p].m_begin)
           w == db_upsert(backend, tb_minutes, IdleMinute(f.monitor, f.band, f.m_begin), o)
       IN  /\ tb_minutes' = w.tb
           /\ frame' = [frame EXCEPT ![p] =
                 IF o = "raise" THEN HandleException(f)
                 ELSE [f EXCEPT !.pc = "read_hours",
                                !.write_err = @ \/ w.ret # NONE]]
    /\ UNCHANGED <<otherVars, backend, tb_hours, work>>

\* for mt, r in minutes.items(): the mean of the group, then
\* recs = self.fetch_in_minutes(begin=mt, end=mt).
ReadMinute(p, o) ==
    /\ frame[p].pc = "read_minute"
    /\ Fault(o)
    /\ LET r == RoundGroup(frame[p].minutes[frame[p].idx])
           f == Logged([frame[p] EXCEPT !.minutes[frame[p].idx] = r], "read", "minutes", r.mt)
           recs == fetch_in_minutes(backend, tb_minutes, f.monitor, f.band, r.mt, r.mt, o)
       IN  frame' = [frame EXCEPT ![p] =
               IF o = "raise" THEN HandleException(f)
               ELSE [f EXCEPT !.recs = recs, !.pc = "write_minute"]]
    /\ UNCHANGED <<otherVars, backend, tb_minutes, tb_hours, work>>

\* The rest of the turn: a new record when recs is empty, else recs[0]
\* merged with the group; then the next minute, or the hours.
WriteMinute(p, o) ==
    /\ frame[p].pc = "write_minute"
    /\ Fault(o)
    /\ LET r == frame[p].minutes[frame[p].idx]
           f == Logged(frame[p], "write", "minutes", r.mt)
           rec == IF f.recs = {}
                  THEN Minutes_Record(f.monitor, f.band, r)
                  ELSE MergeMinute(CHOOSE dbrec \in f.recs : TRUE, r)
           w == db_upsert(backend, tb_minutes, rec, o)
       IN  /\ tb_minutes' = w.tb
           /\ frame' = [frame EXCEPT ![p] =
                 IF o = "raise" THEN HandleException(f)
                 ELSE [f EXCEPT !.idx = IF f.idx < Len(f.minutes) THEN f.idx + 1 ELSE 1,
                                !.pc = IF f.idx < Len(f.minutes) THEN "read_minute" ELSE "read_hours",
                                !.write_err = @ \/ w.ret # NONE]]
    /\ UNCHANGED <<otherVars, backend, tb_hours, work>>

\* m_begin = m_begin - m_begin % 3600; m_end = m_begin: the hour of the
\* first minute is both ends of the window read from the hours table.
HourWindow(m_begin, m_end) ==
    [begin |-> m_begin - (m_begin % HOUR), end |-> m_begin - (m_begin % HOUR)]

\* then hours table: m_begin = m_begin - m_begin % 3600; m_end = m_begin;
\* recs = self.fetch_in_hours(...); hr_db and hr_nm are built.  With no
\* minute of the batch and a record of the hour, the call returns.
ReadHours(p, o) ==
    /\ frame[p].pc = "read_hours"
    /\ Fault(o)
    /\ LET win == HourWindow(frame[p].m_begin, frame[p].m_end)
           f == Logged([frame[p] EXCEPT !.m_begin = win.begin, !.m_end = win.end],
                       "read", "hours", win.begin)
           recs == fetch_in_hours(backend, tb_hours, f.monitor, f.band, f.m_begin, f.m_end, o)
           nm == NewHours(f.monitor, f.band, f.minutes)
       IN  frame' = [frame EXCEPT ![p] =
               IF o = "raise" THEN HandleException(f)
               ELSE IF nm = <<>> /\ recs # {} THEN ReturnNone([f EXCEPT !.hr_db = recs])
               ELSE [f EXCEPT !.hr_db = recs, !.hr_nm = nm, !.idx = 1,
                              !.pc = IF nm = <<>> THEN "idle_write_hour" ELSE "write_hour"]]
    /\ UNCHANGED <<otherVars, backend, tb_minutes, tb_hours, work>>

\* len(hr_nm) == 0 and len(hr_db) == 0: the idle record of the hour.
IdleWriteHour(p, o) ==
    /\ frame[p].pc = "idle_write_hour"
    /\ Fault(o)
    /\ LET f == Logged(frame[p], "write", "hours", frame[p].m_begin)
           w == db_upsert(backend, tb_hours, Hours_Record(f.monitor, f.band, f.m_begin), o)
       IN  /\ tb_hours' = w.tb
           /\ frame' = [frame EXCEPT ![p] =
                 IF o = "raise" THEN HandleException(f)
                 ELSE ReturnNone([f EXCEPT !.write_err = @ \/ w.ret # NONE])]
    /\ UNCHANGED <<otherVars, backend, tb_minutes, work>>

\* for r_hour, c in hr_nm.items(): c is written when hr_db has no record
\* of r_hour, else merged into the record read; then the next hour, or
\* return None.
WriteHour(p, o) ==
    /\ frame[p].pc = "write_hour"
    /\ Fault(o)
    /\ LET c == frame[p].hr_nm[frame[p].idx]
           f == Logged(frame[p], "write", "hours", c.ctime)
           found == {rec \in f.hr_db : rec.ctime = c.ctime}
           data == IF found = {} THEN c ELSE MergeHour(CHOOSE rec \in found : TRUE, c)
           w == db_upsert(backend, tb_hours, data, o)
           g == [f EXCEPT !.write_err = @ \/ w.ret # NONE]
       IN  /\ tb_hours' = w.tb
           /\ frame' = [frame EXCEPT ![p] =
                 IF o = "raise" THEN HandleException(f)
                 ELSE IF f.idx < Len(f.hr_nm) THEN [g EXCEPT !.idx = f.idx + 1]
                 ELSE ReturnNone(g)]
    /\ UNCHANGED <<otherVars, backend, tb_minutes, work>>

\* One Persistence Port call of handler p, with outcome o.
PortStep(p, o) ==
    \/ IdleReadMinute(p, o)
    \/ IdleWriteMinute(p, o)
    \/ ReadMinute(p, o)
    \/ WriteMinute(p, o)
    \/ ReadHours(p, o)
    \/ IdleWriteHour(p, o)
    \/ WriteHour(p, o)

Request(p, monitors, pool) ==
    \E monitor \in monitors, band \in Bands, data \in Batches(pool, MaxWork - work),
       now \in ClockTimes :
        Start(p, monitor, band, data, now)

\* The sqlite server: one HTTPServer thread, a request is served to its end
\* before the next is accepted; every Persistence Port call reaches the
\* backend.
Next ==
    \/ Request("h1", Monitors, MsgPool)
    \/ PortStep("h1", "ok")

Spec == Init /\ [][Next]_vars

\* The same server, serving one monitor, with a Persistence Port that can
\* fail at any call.
NextFault ==
    \/ Request("h1", {"ft8mon"}, FaultPool)
    \/ \E o \in Outcomes : PortStep("h1", o)

SpecFault == Init /\ [][NextFault]_vars

\* The Lambda deployment: invocations run concurrently, each one call of
\* save_monitor_data for the monitor of the report.
NextConc ==
    \/ \E p \in Handlers : frame[p].pc = "idle" /\ Request(p, Monitors, MsgPool)
    \/ \E p \in Handlers : PortStep(p, "ok")

SpecConc == InitConc /\ [][NextConc]_vars

\* ------------------------------------------------------------ the read API

\* Rows a store holds beyond the RETURN_RECORD_LIMIT of its backend.
MaxOver == 1

\* Rows of a store that holds only a few.
MaxFew == 3

\* The first minute and hour of the stores read below.
BaseTime == 2 * HOUR

\* How many minutes (hours) a monitor has been online.
RowCounts(b) ==
    (0..MaxFew) \cup ((RETURN_RECORD_LIMIT(b) - 1)..(RETURN_RECORD_LIMIT(b) + MaxOver))

\* The minutes table after "ft8mon" was online and idle for n minutes from
\* BaseTime and "testStation" for two minutes, one of them before BaseTime.
\* (With PRIMARY KEY (ctime) the sqlite table holds one row per ctime.)
StoredMinutes(b, n) ==
    {IdleMinute("ft8mon", "50.313", BaseTime + MINUTE * (k - 1)) : k \in 1..n}
    \cup {IdleMinute("testStation", "50.313", BaseTime - MINUTE)}
    \cup (IF b = "dynamodb" \/ n = 0
          THEN {IdleMinute("testStation", "50.313", BaseTime)} ELSE {})

\* The hours table after n hours of the same.
StoredHours(b, n) ==
    {Hours_Record("ft8mon", "50.313", BaseTime + HOUR * (k - 1)) : k \in 1..n}
    \cup {Hours_Record("testStation", "50.313", BaseTime - HOUR)}
    \cup (IF b = "dynamodb" \/ n = 0
          THEN {Hours_Record("testStation", "50.313", BaseTime)} ELSE {})

\* begin and end of the reads: aligned and not, inside the stored range
\* and beyond it.
FetchTimes == {7200, 7230, 7259, 10800, 2887200}

InitFetch ==
    /\ backend \in Backends
    /\ \E n \in RowCounts(backend) :
          /\ tb_minutes = StoredMinutes(backend, n)
          /\ tb_hours = StoredHours(backend, n)
    /\ frame = [p \in Handlers |-> IdleFrame]
    /\ work = 0
    /\ faults = 0
    /\ InitOther

\* A call of fetch_in_minutes(monitor, band, begin, end).
FetchMinutes(monitor, band, begin, end) ==
    /\ fetched' = [called |-> TRUE, table |-> "minutes", monitor |-> monitor,
                   band |-> band, begin |-> begin, end |-> end,
                   recs |-> fetch_in_minutes(backend, tb_minutes, monitor, band,
                                             begin, end, "ok")]
    /\ UNCHANGED <<backend, tb_minutes, tb_hours, frame, work, faults, clock, sender, tq, monitorVars>>

\* A call of fetch_in_hours(monitor, band, begin, end).
FetchHours(monitor, band, begin, end) ==
    /\ fetched' = [called |-> TRUE, table |-> "hours", monitor |-> monitor,
                   band |-> band, begin |-> begin, end |-> end,
                   recs |-> fetch_in_hours(backend, tb_hours, monitor, band,
                                           begin, end, "ok")]
    /\ UNCHANGED <<backend, tb_minutes, tb_hours, frame, work, faults, clock, sender, tq, monitorVars>>

NextFetch ==
    \/ \E monitor \in Monitors, band \in Bands, begin \in FetchTimes, end \in FetchTimes :
          FetchMinutes(monitor, band, begin, end)
    \/ \E monitor \in Monitors, band \in Bands, begin \in FetchTimes, end \in FetchTimes :
          FetchHours(monitor, band, begin, end)

SpecFetch == InitFetch /\ [][NextFetch]_vars

\* ------------------------------------------------------ monitors online

\* SENDING_PERIOD of wsjtx_msg_server.py, in seconds.
SENDING_PERIOD == 30

\* Seconds a run lasts.
MaxSeconds == 92

\* Messages the receive loops put on their queues in one run.
MaxDecodes == 1

\* The clock when a run begins: one sending period before BaseTime.
OnlineStart == BaseTime - SENDING_PERIOD

\* When a monitor is started, and when a Decode telegram arrives.
BootTimes == {OnlineStart, OnlineStart + 20}
DecodeTimes == {BaseTime - 1, BaseTime, BaseTime + 15, BaseTime + 31}

\* What parse_wsjtx_decode_msg and handle_decode make of a Decode telegram,
\* without the time: a CQ call, and free text that has no caller.
DecodePool ==
    { [snr |-> -5, caller |-> "WB9XYZ", country |-> "United States", zone_cq |-> "4"],
      [snr |-> -7, caller |-> NONE,     country |-> NONE,            zone_cq |-> NONE] }

\* do_POST: Monitor_Message(gtime=m['time'], snr=m['snr'], caller=m['caller'],
\* country=m['country'], cq=m['zone_cq'], ...) for m in the payload.
Monitor_Message(m) ==
    [gtime |-> m.time, snr |-> m.snr, caller |-> m.caller,
     country |-> m.country, cq |-> m.zone_cq]

BandData(payload) == [i \in DOMAIN payload |-> Monitor_Message(payload[i])]

InitOnline ==
    /\ backend \in Backends
    /\ tb_minutes = {}
    /\ tb_hours = {}
    /\ frame = [p \in Handlers |-> IdleFrame]
    /\ work = 0
    /\ faults = 0
    /\ fetched = NoFetch
    /\ clock = OnlineStart
    /\ sender = [m \in Monitors |-> NotStarted]
    /\ tq = [m \in Monitors |-> <<>>]
    /\ codec = NoCodec
    /\ udp = NoUdp
    /\ cty = NoCty
    /\ proc = NoProc

\* The server is not inside a request.
ServerIdle == frame["h1"].pc \in {"idle", "done"}

\* main(): ts.start() - the sender thread of monitor m begins its loop.
Boot(m) ==
    /\ ~sender[m].started
    /\ clock \in BootTimes
    /\ sender' = [sender EXCEPT ![m] = [@ EXCEPT !.started = TRUE, !.boot = clock]]
    /\ UNCHANGED <<backend, tb_minutes, tb_hours, frame, work, faults, fetched, clock, tq, monitorVars>>

\* One second passes: time.sleep(1) returns in every sender that is in its
\* for loop.  A sender that has slept SENDING_PERIOD times posts first, and
\* the server serves a request to its end.
Tick ==
    /\ clock < OnlineStart + MaxSeconds
    /\ ServerIdle
    /\ \A m \in Monitors : sender[m].started => sender[m].slept < SENDING_PERIOD
    /\ clock' = clock + 1
    /\ sender' = [m \in Monitors |->
                    IF sender[m].started
                    THEN [sender[m] EXCEPT !.slept = @ + 1]
                    ELSE sender[m]]
    /\ UNCHANGED <<backend, tb_minutes, tb_hours, frame, work, faults, fetched, tq, monitorVars>>

\* handle_decode of monitor m: msg['time'] = int(time.time()) and
\* self.msg_pipe.put(msg).
Decode(m, body) ==
    /\ sender[m].started
    /\ clock \in DecodeTimes
    /\ Len(sender["ft8mon"].heard) + Len(sender["testStation"].heard) < MaxDecodes
    /\ LET msg == [time |-> clock, snr |-> body.snr, caller |-> body.caller,
                   country |-> body.country, zone_cq |-> body.zone_cq]
       IN  /\ tq' = [tq EXCEPT ![m] = Append(@, msg)]
           /\ sender' = [sender EXCEPT ![m] = [@ EXCEPT !.heard = Append(@, msg)]]
    /\ UNCHANGED <<backend, tb_minutes, tb_hours, frame, work, faults, fetched, clock, monitorVars>>

\* The sender of monitor m after its for loop: the queue is drained into
\* ml and handle_msg(ml) posts it to /report?id=m&band=...; the server's
\* do_POST calls save_monitor_data(monitor, band, band_data).
Post(m) ==
    /\ sender[m].started
    /\ sender[m].slept = SENDING_PERIOD
    /\ ServerIdle
    /\ frame' = [frame EXCEPT !["h1"] = Call("h1", m, "50.313", BandData(tq[m]), clock)]
    /\ tq' = [tq EXCEPT ![m] = <<>>]
    /\ sender' = [sender EXCEPT ![m] = [@ EXCEPT !.slept = 0, !.last_post = clock]]
    /\ UNCHANGED <<backend, tb_minutes, tb_hours, work, faults, fetched, clock, monitorVars>>

\* Monitors that post every SENDING_PERIOD seconds to one server, every
\* post ingested at once.
NextOnline ==
    \/ \E m \in Monitors : Boot(m)
    \/ Tick
    \/ \E m \in Monitors, body \in DecodePool : Decode(m, body)
    \/ \E m \in Monitors : Post(m)
    \/ PortStep("h1", "ok")

SpecOnline == InitOnline /\ [][NextOnline]_vars

\* ------------------------------------------------- telegram codec: values
\* A Python value of a telegram field is None or a value: Null, or Some(x).
\* Integers of the widths '!L' and '!Q' are kept as big-endian sequences of
\* 16-bit limbs (2 and 4 of them), those of '!B' and '!l' as integers, a
\* float by its name in FloatBits, a str as the sequence of its code points.

Null == <<>>
Some(x) == <<x>>

\* b[:n] and b[n:]
Take(b, n) == SubSeq(b, 1, Min(n, Len(b)))
Drop(b, n) == SubSeq(b, Min(n, Len(b)) + 1, Len(b))

\* The IEEE 754 big-endian bytes of the floats used.
FloatBits ==
    ("0.5" :> <<63, 224, 0, 0, 0, 0, 0, 0>>) @@ ("-1.5" :> <<191, 248, 0, 0, 0, 0, 0, 0>>)

\* struct.calcsize(fmt)
calcsize(fmt) ==
    CASE fmt = "!B" -> 1 [] fmt = "!L" -> 4 [] fmt = "!l" -> 4 [] OTHER -> 8

\* struct.pack(fmt, v): network byte order.
pack(fmt, v) ==
    CASE fmt = "!B" -> <<v>>
      [] fmt = "!l" -> [i \in 1..4 |-> (v \div (256 ^ (4 - i))) % 256]
      [] fmt = "!d" -> FloatBits[v]
      [] OTHER -> [i \in 1..(2 * Len(v)) |->
                     IF i % 2 = 1 THEN v[(i + 1) \div 2] \div 256 ELSE v[i \div 2] % 256]

\* struct.unpack(fmt, b)[0] for a buffer b of calcsize(fmt) bytes.
unpack(fmt, b) ==
    CASE fmt = "!B" -> b[1]
      [] fmt = "!l" -> (b[1] - (IF b[1] >= 128 THEN 256 ELSE 0)) * 16777216
                       + b[2] * 65536 + b[3] * 256 + b[4]
      [] fmt = "!d" -> IF \E f \in DOMAIN FloatBits : FloatBits[f] = b
                       THEN CHOOSE f \in DOMAIN FloatBits : FloatBits[f] = b
                       ELSE "other"
      [] OTHER -> [i \in 1..(Len(b) \div 2) |-> b[2 * i - 1] * 256 + b[2 * i]]

\* The UTF-8 bytes of one code point.
Utf8(cp) ==
    IF cp < 128 THEN <<cp>>
    ELSE IF cp < 2048 THEN <<192 + (cp \div 64), 128 + (cp % 64)>>
    ELSE IF cp < 65536
    THEN <<224 + (cp \div 4096), 128 + ((cp \div 64) % 64), 128 + (cp % 64)>>
    ELSE <<240 + (cp \div 262144), 128 + ((cp \div 4096) % 64),
           128 + ((cp \div 64) % 64), 128 + (cp % 64)>>

\* str.encode('utf-8')
RECURSIVE encode(_)
encode(str) == IF str = <<>> THEN <<>> ELSE Utf8(Head(str)) \o encode(Tail(str))

\* bytes.decode('utf-8'): ok is FALSE where Python raises UnicodeDecodeError.
RECURSIVE decode(_)
decode(b) ==
    IF b = <<>> THEN [ok |-> TRUE, str |-> <<>>]
    ELSE LET c == b[1]
             n == IF c < 128 THEN 1
                  ELSE IF c >= 194 /\ c < 224 THEN 2
                  ELSE IF c >= 224 /\ c < 240 THEN 3
                  ELSE IF c >= 240 /\ c < 245 THEN 4
                  ELSE 0
             valid == /\ n > 0
                      /\ n <= Len(b)
                      /\ \A i \in 2..n : b[i] >= 128 /\ b[i] < 192
                      /\ c = 224 => b[2] >= 160
                      /\ c = 237 => b[2] < 160
                      /\ c = 240 => b[2] >= 144
                      /\ c = 244 => b[2] < 144
             cp == IF n = 1 THEN c
                   ELSE IF n = 2 THEN (c - 192) * 64 + (b[2] - 128)
                   ELSE IF n = 3 THEN (c - 224) * 4096 + (b[2] - 128) * 64 + (b[3] - 128)
                   ELSE (c - 240) * 262144 + (b[2] - 128) * 4096
                        + (b[3] - 128) * 64 + (b[4] - 128)
         IN  IF ~valid THEN [ok |-> FALSE, str |-> <<>>]
             ELSE LET rest == decode(Drop(b, n))
                  IN  IF rest.ok THEN [ok |-> TRUE, str |-> <<cp>> \o rest.str]
                      ELSE [ok |-> FALSE, str |-> <<>>]

\* ------------------------------------------- telegram codec: the elements
\* deserialize gives err (NONE, or the exception raised), the value and
\* the serialization_size; serialize gives err and the bytes.

Parsed(value, size) == [err |-> NONE, value |-> value, size |-> size]
Raised(e) == [err |-> e, value |-> Null, size |-> 0]
Packed(b) == [err |-> NONE, bytes |-> b]
Failed(e) == [err |-> e, bytes |-> <<>>]

\* 0xFFFFFFFF, the length of a null string.
NullLength == <<65535, 65535>>

\* UTF8_String.deserialize
UTF8_String_deserialize(dbytes) ==
    IF Len(Take(dbytes, 4)) # 4 THEN Raised("struct.error")
    ELSE LET length == unpack("!L", Take(dbytes, 4))
         IN  IF length = NullLength THEN Parsed(Null, 4)
             ELSE IF length[1] > 0 \/ Len(dbytes) - 4 < length[2]
             THEN Raised("struct.error")
             ELSE LET value == decode(SubSeq(dbytes, 5, 4 + length[2]))
                  IN  IF value.ok THEN Parsed(Some(value.str), 4 + length[2])
                      ELSE Raised("UnicodeDecodeError")

\* UTF8_String.serialize: length = len(self.value) counts the characters,
\* and pack('%ds' % length, value) cuts or zero-pads the bytes to it.
UTF8_String_serialize(v) ==
    IF v = Null THEN Packed(pack("!L", NullLength))
    ELSE LET length == Len(v[1])
             value == encode(v[1])
         IN  Packed(pack("!L", <<0, length>>)
                    \o [i \in 1..length |-> IF i <= Len(value) THEN value[i] ELSE 0])

\* Optional_Quint.deserialize(dbytes, 1): unpack('!B', dbytes) of all that
\* is left of the buffer.
Optional_Quint_deserialize(dbytes) ==
    IF Len(dbytes) = 0 THEN Parsed(Null, 0)
    ELSE IF Len(dbytes) # 1 THEN Raised("struct.error")
    ELSE Parsed(Some(unpack("!B", dbytes)), 1)

\* Optional_Quint(v).serialize(): self.size is set by deserialize only.
Optional_Quint_serialize(v) ==
    IF v = Null THEN Packed(<<>>) ELSE Failed("AttributeError")

\* QDateTime.__init__: the exception it raises, or NONE.
QDateTime_init(timespec, offset) ==
    IF ~(offset = Null \/ timespec = 2) THEN "AssertionError"
    ELSE IF timespec = 2 /\ offset # Null THEN "ValueError"
    ELSE NONE

\* QDateTime.deserialize
QDateTime_deserialize(dbytes) ==
    IF Len(Take(dbytes, 13)) # 13 THEN Raised("struct.error")
    ELSE LET date == unpack("!q", SubSeq(dbytes, 1, 8))
             dtime == unpack("!L", SubSeq(dbytes, 9, 12))
             timespec == unpack("!B", SubSeq(dbytes, 13, 13))
         IN  IF timespec = 2 /\ Len(Take(Drop(dbytes, 13), 4)) # 4
             THEN Raised("struct.error")
             ELSE LET offset == IF timespec = 2
                                THEN Some(unpack("!l", Take(Drop(dbytes, 13), 4)))
                                ELSE Null
                  IN  IF QDateTime_init(timespec, offset) # NONE
                      THEN Raised(QDateTime_init(timespec, offset))
                      ELSE Parsed(Some([date |-> date, time |-> dtime,
                                        timespec |-> timespec, offset |-> offset]),
                                  IF offset = Null THEN 13 ELSE 17)

\* QDateTime.serialize
QDateTime_serialize(dt) ==
    Packed(pack("!q", dt.date) \o pack("!L", dt.time) \o pack("!B", dt.timespec)
           \o (IF dt.offset = Null THEN <<>> ELSE pack("!l", dt.offset[1])))

\* QColor.deserialize: fmt '!BHHHHH', 11 bytes.
QColor_deserialize(dbytes) ==
    IF Len(Take(dbytes, 11)) # 11 THEN Raised("struct.error")
    ELSE LET h == unpack("!HHHHH", SubSeq(dbytes, 2, 11))
         IN  Parsed(Some([spec |-> dbytes[1], alpha |-> h[1], red |-> h[2],
                          green |-> h[3], blue |-> h[4]]), 11)

\* QColor.serialize
QColor_serialize(col) ==
    Packed(pack("!B", col.spec)
           \o pack("!HHHHH", <<col.alpha, col.red, col.green, col.blue, 0>>))

\* The shortcuts for the data types packed by struct.
StructFormat ==
    [quint8 |-> "!B", qbool |-> "!B", quint32 |-> "!L", qtime |-> "!L",
     quint64 |-> "!Q", qint32 |-> "!l", qdouble |-> "!d"]

\* One field read from a buffer that is not empty.
DeserializeField(dformat, b) ==
    IF dformat \in DOMAIN StructFormat
    THEN LET length == calcsize(StructFormat[dformat])
         IN  IF Len(Take(b, length)) # length THEN Raised("struct.error")
             ELSE Parsed(Some(unpack(StructFormat[dformat], Take(b, length))), length)
    ELSE CASE dformat = "qutf8" -> UTF8_String_deserialize(b)
           [] dformat = "opt_quint8" -> Optional_Quint_deserialize(b)
           [] dformat = "qdatetime" -> QDateTime_deserialize(b)
           [] OTHER -> QColor_deserialize(b)

\* One turn of the loop of as_bytes: a QDateTime or QColor serializes
\* itself, a struct format is packed (None cannot be), and else the value
\* is wrapped into its element class.
SerializeField(fmt, v) ==
    IF fmt = "qdatetime" /\ v # Null THEN QDateTime_serialize(v[1])
    ELSE IF fmt = "qcolor" /\ v # Null THEN QColor_serialize(v[1])
    ELSE IF fmt \in DOMAIN StructFormat
    THEN IF v = Null THEN Failed("struct.error")
         ELSE Packed(pack(StructFormat[fmt], v[1]))
    ELSE CASE fmt = "qutf8" -> UTF8_String_serialize(v)
           [] fmt = "opt_quint8" -> Optional_Quint_serialize(v)
           [] fmt = "qdatetime" -> Failed("TypeError")
           [] OTHER -> Failed("struct.error")

\* ------------------------------------------ telegram codec: the telegrams

\* WSJTX_Telegram.magic and schema_version_number.
magic == <<44476, 52186>>
schema_version_number == 3

\* WSJTX_Telegram.format
HeaderFormat ==
    << <<"magic", "quint32">>, <<"version_number", "quint32">>,
       <<"type", "quint32">>, <<"id", "qutf8">> >>

\* The class WSJTX_Telegram itself, among the classes named by their type.
BASE == -1

\* The fields each registered class adds to WSJTX_Telegram.format.
BodyFormat ==
    [type \in 0..15 |->
      CASE type = 0 -> << <<"max_schema", "quint32">>, <<"version", "qutf8">>,
                          <<"revision", "qutf8">> >>
        [] type = 1 -> << <<"dial_frq", "quint64">>, <<"mode", "qutf8">>,
                          <<"dx_call", "qutf8">>, <<"report", "qutf8">>,
                          <<"tx_mode", "qutf8">>, <<"tx_enabled", "qbool">>,
                          <<"xmitting", "qbool">>, <<"decoding", "qbool">>,
                          <<"rx_df", "quint32">>, <<"tx_df", "quint32">>,
                          <<"de_call", "qutf8">>, <<"de_grid", "qutf8">>,
                          <<"dx_grid", "qutf8">>, <<"tx_watchdog", "qbool">>,
                          <<"sub_mode", "qutf8">>, <<"fast_mode", "qbool">>,
                          <<"special_op", "quint8">>, <<"frq_tolerance", "quint32">>,
                          <<"t_r_period", "quint32">>, <<"config_name", "qutf8">>,
                          <<"tx_message", "qutf8">> >>
        [] type = 2 -> << <<"is_new", "qbool">>, <<"time", "qtime">>,
                          <<"snr", "qint32">>, <<"delta_t", "qdouble">>,
                          <<"delta_f", "quint32">>, <<"mode", "qutf8">>,
                          <<"message", "qutf8">>, <<"low_confidence", "qbool">>,
                          <<"off_air", "qbool">> >>
        [] type = 3 -> << <<"window", "opt_quint8">> >>
        [] type = 4 -> << <<"time", "qtime">>, <<"snr", "qint32">>,
                          <<"delta_t", "qdouble">>, <<"delta_f", "quint32">>,
                          <<"mode", "qutf8">>, <<"message", "qutf8">>,
                          <<"low_confidence", "qbool">>, <<"modifiers", "quint8">> >>
        [] type = 5 -> << <<"time_off", "qdatetime">>, <<"dx_call", "qutf8">>,
                          <<"dx_grid", "qutf8">>, <<"tx_frq", "quint64">>,
                          <<"mode", "qutf8">>, <<"report_sent", "qutf8">>,
                          <<"report_recv", "qutf8">>, <<"tx_power", "qutf8">>,
                          <<"comments", "qutf8">>, <<"name", "qutf8">>,
                          <<"time_on", "qdatetime">>, <<"operator_call", "qutf8">>,
                          <<"my_call", "qutf8">>, <<"my_grid", "qutf8">>,
                          <<"exchange_sent", "qutf8">>, <<"exchange_recv", "qutf8">>,
                          <<"adif_propmode", "qutf8">> >>
        [] type = 8 -> << <<"auto_tx_only", "qbool">> >>
        [] type = 9 -> << <<"text", "qutf8">>, <<"send", "qbool">> >>
        [] type = 10 -> << <<"is_new", "qbool">>, <<"time", "qtime">>,
                           <<"snr", "qint32">>, <<"delta_t", "qdouble">>,
                           <<"frq", "quint64">>, <<"drift", "qint32">>,
                           <<"callsign", "qutf8">>, <<"grid", "qutf8">>,
                           <<"power", "qint32">>, <<"off_air", "qbool">> >>
        [] type = 11 -> << <<"location", "qutf8">> >>
        [] type = 12 -> << <<"adif_txt", "qutf8">> >>
        [] type = 13 -> << <<"callsign", "qutf8">>, <<"bg_color", "qcolor">>,
                           <<"fg_color", "qcolor">>, <<"highlight_last", "qbool">> >>
        [] type = 14 -> << <<"adif_txt", "qutf8">> >>
        [] type = 15 -> << <<"mode", "qutf8">>, <<"frq_tolerance", "quint32">>,
                           <<"sub_mode", "qutf8">>, <<"fast_mode", "qbool">>,
                           <<"t_r_period", "quint32">>, <<"rx_df", "quint32">>,
                           <<"dx_call", "qutf8">>, <<"dx_grid", "qutf8">>,
                           <<"gen_messages", "qbool">> >>
        [] OTHER -> << >> ]

\* cls.format of the class c: BASE, or a key of type_registry.
format(c) == IF c = BASE THEN HeaderFormat ELSE HeaderFormat \o BodyFormat[c]

\* (faulty variant of deserialize: a field the buffer ends before is an error)
RECURSIVE deserializeStrict(_, _, _, _)
deserializeStrict(fmt, i, b, kw) ==
    IF i > Len(fmt) THEN [err |-> NONE, kw |-> kw]
    ELSE LET r == IF Len(b) = 0 THEN Raised("struct.error")
                  ELSE DeserializeField(fmt[i][2], b)
         IN  IF r.err # NONE THEN [err |-> r.err, kw |-> kw]
             ELSE deserializeStrict(fmt, i + 1, Drop(b, r.size), Append(kw, r.value))

\* WSJTX_Telegram.deserialize from field i on: kw is the list of the
\* values in the order of the format; a field the buffer ends before is None.
RECURSIVE deserialize(_, _, _, _)
deserialize(fmt, i, b, kw) ==
    IF i > Len(fmt) THEN [err |-> NONE, kw |-> kw]
    ELSE IF Len(b) = 0 THEN deserialize(fmt, i + 1, b, Append(kw, Null))
    ELSE LET r == DeserializeField(fmt[i][2], b)
         IN  IF r.err # NONE THEN [err |-> r.err, kw |-> kw]
             ELSE deserialize(fmt, i + 1, Drop(b, r.size), Append(kw, r.value))

\* WSJTX_Telegram.__init__(**kw) of class c, every field given: the
\* exception raised, or NONE.
Telegram_init(c, kw) ==
    IF kw[1] # Some(magic) THEN "AssertionError"
    ELSE IF kw[2] = Null THEN "TypeError"
    ELSE IF ~(kw[2][1][1] = 0 /\ schema_version_number >= kw[2][1][2]) THEN "AssertionError"
    ELSE IF c # BASE /\ kw[3] # Some(<<0, c>>) THEN "AssertionError"
    ELSE NONE

\* A telegram object, and the exception raised instead of one.
Telegram(c, kw) == [err |-> NONE, class |-> c, kw |-> kw]
NoTelegram(e) == [err |-> e, class |-> BASE, kw |-> <<>>]

\* dtype in cls.type_registry
Registered(dtype) == dtype # Null /\ dtype[1][1] = 0 /\ dtype[1][2] \in 0..15

\* WSJTX_Telegram.from_bytes
from_bytes(dbytes) ==
    LET h == deserialize(HeaderFormat, 1, dbytes, <<>>)
    IN  IF h.err # NONE THEN NoTelegram(h.err)
        ELSE IF Telegram_init(BASE, h.kw) # NONE THEN NoTelegram(Telegram_init(BASE, h.kw))
        ELSE IF ~Registered(h.kw[3]) THEN Telegram(BASE, h.kw)
        ELSE LET c == h.kw[3][1][2]
                 d == deserialize(format(c), 1, dbytes, <<>>)
             IN  IF d.err # NONE THEN NoTelegram(d.err)
                 ELSE IF Telegram_init(c, d.kw) # NONE THEN NoTelegram(Telegram_init(c, d.kw))
                 ELSE Telegram(c, d.kw)

\* The list r of as_bytes, field by field; err is the first exception.
RECURSIVE as_parts(_, _, _)
as_parts(tel, i, r) ==
    IF i > Len(format(tel.class)) THEN [err |-> NONE, parts |-> r]
    ELSE LET e == SerializeField(format(tel.class)[i][2], tel.kw[i])
         IN  IF e.err # NONE THEN [err |-> e.err, parts |-> r]
             ELSE as_parts(tel, i + 1, Append(r, e.bytes))

\* b''.join(r)
RECURSIVE join(_)
join(r) == IF r = <<>> THEN <<>> ELSE Head(r) \o join(Tail(r))

\* What WSJT-X puts on the wire for a field: as serialize, but a string
\* with the length of its UTF-8 bytes and an optional integer that is there.
WireField(fmt, v) ==
    IF fmt = "qutf8" /\ v # Null
    THEN pack("!L", <<0, Len(encode(v[1]))>>) \o encode(v[1])
    ELSE IF fmt = "opt_quint8" /\ v # Null THEN pack("!B", v[1])
    ELSE SerializeField(fmt, v).bytes

\* The datagram of a telegram, field by field.
WireParts(tel) ==
    [i \in 1..Len(tel.kw) |->
        WireField(format(tel.class)[i][2], tel.kw[i])]

\* ------------------------------------------------ telegram codec: runs

\* The part of the server that does not take part in a run of the monitor.
ServerUnused ==
    /\ backend = "sqlite"
    /\ tb_minutes = {}
    /\ tb_hours = {}
    /\ frame = [p \in Handlers |-> IdleFrame]
    /\ work = 0
    /\ faults = 0
    /\ fetched = NoFetch
    /\ InitStations

serverVars == <<backend, tb_minutes, tb_hours, frame, work, faults, fetched, clock, sender, tq>>

\* The kinds of values the fields of a telegram are given: usual ones,
\* null strings, empty strings and zeros, strings beyond ASCII, an optional
\* integer that is there, a datetime with an offset from UTC.
Variants == {"plain", "null", "empty", "nonascii", "present", "tz"}

\* The headers: schema version 2, 3 and 4, and a magic number that is not
\* WSJTX_Telegram.magic.
Headers == {"v2", "v3", "v4", "badmagic"}

\* A type tag that is no key of type_registry.
UnknownType == 99

\* The value of a field of the format fmt.
FieldValue(fmt, variant) ==
    CASE fmt = "qutf8" ->
            (CASE variant = "null" -> Null
               [] variant = "empty" -> Some(<<>>)
               [] variant = "nonascii" -> Some(<<74, 233>>)
               [] OTHER -> Some(<<70, 84, 56>>))
      [] fmt = "opt_quint8" -> IF variant = "present" THEN Some(1) ELSE Null
      [] fmt = "qdatetime" ->
            Some([date |-> <<0, 0, 37, 33380>>, time |-> <<0, 9>>,
                  timespec |-> IF variant = "tz" THEN 2
                               ELSE IF variant = "empty" THEN 0 ELSE 1,
                  offset |-> IF variant = "tz" THEN Some(3600) ELSE Null])
      [] fmt = "qcolor" ->
            Some([spec |-> 1, alpha |-> 65535, red |-> 65535, green |-> 0, blue |-> 0])
      [] fmt = "quint64" -> Some(<<0, 0, 107, 61648>>)
      [] fmt = "qint32" -> Some(IF variant = "empty" THEN 0 ELSE -15)
      [] fmt = "qdouble" -> Some(IF variant = "empty" THEN "-1.5" ELSE "0.5")
      [] fmt \in {"quint32", "qtime"} ->
            Some(IF variant = "empty" THEN <<0, 0>> ELSE <<65535, 65535>>)
      [] OTHER -> Some(IF variant = "empty" THEN 0 ELSE 1)

\* The telegram of class c (BASE: one of a type that is not registered).
TelegramOf(c, variant, header) ==
    [class |-> c,
     kw |-> [i \in 1..Len(format(c)) |->
               CASE i = 1 -> Some(IF header = "badmagic" THEN <<44476, 52187>> ELSE magic)
                 [] i = 2 -> Some(<<0, IF header = "v4" THEN 4
                                       ELSE IF header = "v2" THEN 2 ELSE 3>>)
                 [] i = 3 -> Some(<<0, IF c = BASE THEN UnknownType ELSE c>>)
                 [] OTHER -> FieldValue(format(c)[i][2], variant)]]

\* The telegram can be made in Python: its own __init__ and that of its
\* QDateTime fields raise nothing.
Constructible(tel) ==
    /\ Telegram_init(tel.class, tel.kw) = NONE
    /\ \A i \in 1..Len(tel.kw) :
          format(tel.class)[i][2] = "qdatetime"
             => QDateTime_init(tel.kw[i][1].timespec, tel.kw[i][1].offset) = NONE

InitCodec ==
    /\ ServerUnused
    /\ udp = NoUdp
    /\ cty = NoCty
    /\ proc = NoProc
    /\ \E c \in 0..15 \cup {BASE}, variant \in Variants, header \in Headers :
          codec = [NoCodec EXCEPT !.pc = "new", !.tel = TelegramOf(c, variant, header)]

\* t.as_bytes() of a telegram object.
Encode ==
    /\ codec.pc = "new"
    /\ Constructible(codec.tel)
    /\ LET e == as_parts(codec.tel, 1, <<>>)
       IN  codec' = [codec EXCEPT !.pc = "encoded", !.err = e.err, !.parts = e.parts,
                                  !.bytes = IF e.err = NONE THEN join(e.parts) ELSE <<>>,
                                  !.k = Len(e.parts)]
    /\ UNCHANGED <<serverVars, proc, udp, cty>>

\* WSJTX_Telegram.from_bytes(t.as_bytes())
DecodeBack ==
    /\ codec.pc = "encoded"
    /\ codec.err = NONE
    /\ codec' = [codec EXCEPT !.pc = "back", !.out = from_bytes(codec.bytes)]
    /\ UNCHANGED <<serverVars, proc, udp, cty>>

\* WSJT-X sends the telegram.
Send ==
    /\ codec.pc = "new"
    /\ codec' = [codec EXCEPT !.pc = "sent", !.err = NONE, !.parts = WireParts(codec.tel),
                              !.bytes = join(WireParts(codec.tel)),
                              !.k = Len(codec.tel.kw)]
    /\ UNCHANGED <<serverVars, proc, udp, cty>>

\* The datagram ends after its first k fields.
Cut(k) ==
    /\ codec.pc = "sent"
    /\ k < Len(codec.parts)
    /\ codec' = [codec EXCEPT !.pc = "cut", !.bytes = join(Take(codec.parts, k)), !.k = k]
    /\ UNCHANGED <<serverVars, proc, udp, cty>>

\* WSJTX_Telegram.from_bytes(data) of the datagram.
Receive ==
    /\ codec.pc \in {"sent", "cut"}
    /\ codec' = [codec EXCEPT !.pc = "received", !.out = from_bytes(codec.bytes)]
    /\ UNCHANGED <<serverVars, proc, udp, cty>>

NextCodec ==
    \/ Encode
    \/ DecodeBack
    \/ Send
    \/ \E k \in 0..(Len(codec.parts) - 1) : Cut(k)
    \/ Receive

SpecCodec == InitCodec /\ [][NextCodec]_vars

\* ------------------------------------------------------ country table
\* A str is the sequence of its characters; a dict is a function.

\* Country blocks of a cty file, and alias prefixes of one block.
MaxBlocks == 2
MaxAliases == 2

Digits == {"0", "1", "2", "3", "4", "5", "6", "7", "8", "9"}

\* The class [A-Z0-9/] of re_callsign.
CallChars ==
    {"A", "B", "C", "D", "E", "F", "G", "H", "I", "J", "K", "L", "M", "N", "O", "P",
     "Q", "R", "S", "T", "U", "V", "W", "X", "Y", "Z", "/"} \cup Digits

\* The number of characters of str from position i on that are in class.
RECURSIVE Run(_, _, _)
Run(str, i, class) ==
    IF i <= Len(str) /\ str[i] \in class THEN 1 + Run(str, i + 1, class) ELSE 0

\* The length of the match of  open \d+ close  at position i of str, 0
\* for none.
Group(str, i, open, close) ==
    LET d == Run(str, i + 1, Digits)
    IN  IF i <= Len(str) /\ str[i] = open /\ d > 0
           /\ i + 1 + d <= Len(str) /\ str[i + 1 + d] = close
        THEN d + 2 ELSE 0

\* re_callsign.match(pfx) and m.groups(): (\=)?([A-Z0-9/]+)(\(\d+\))?(\[\d+\])?
\* at the begin of pfx; a group that did not take part is None.
re_callsign(pfx) ==
    LET eq == IF Len(pfx) > 0 /\ pfx[1] = "=" THEN 1 ELSE 0
        l == Run(pfx, eq + 1, CallChars)
        cq == Group(pfx, eq + l + 1, "(", ")")
        itu == Group(pfx, eq + l + cq + 1, "[", "]")
    IN  [matched |-> l > 0,
         full_callsign |-> IF eq = 1 THEN Some(<<"=">>) ELSE Null,
         callsign |-> SubSeq(pfx, eq + 1, eq + l),
         g_cq |-> IF cq > 0 THEN Some(SubSeq(pfx, eq + l + 1, eq + l + cq)) ELSE Null,
         g_itu |-> IF itu > 0
                   THEN Some(SubSeq(pfx, eq + l + cq + 1, eq + l + cq + itu))
                   ELSE Null]

\* s[1:-1]
Inner(str) == SubSeq(str, 2, Len(str) - 1)

\* The entry parse_alias_line makes for a match m in the block of country.
AliasEntry(country, c_data, m) ==
    [country |-> country,
     cq |-> IF m.g_cq # Null THEN Inner(m.g_cq[1]) ELSE c_data.cq,
     itu |-> IF m.g_itu # Null THEN Inner(m.g_itu[1]) ELSE c_data.itu,
     continent |-> c_data.continent, lat |-> c_data.lat, lon |-> c_data.lon,
     gmtoff |-> c_data.gmtoff]

\* (faulty variant of Keep: the last occurrence wins)
KeepLast(table, callsign, entry) ==
    [k \in DOMAIN table \cup {callsign} |-> IF k = callsign THEN entry ELSE table[k]]

\* `if callsign not in table: table[callsign] = entry`
Keep(table, callsign, entry) ==
    IF callsign \in DOMAIN table THEN table
    ELSE [k \in DOMAIN table \cup {callsign} |-> IF k = callsign THEN entry ELSE table[k]]

\* parse_alias_line(country, line_text) from the i-th alias prefix of pfxs
\* on, on the tables t of the object; err is the exception raised.
RECURSIVE parse_alias_line(_, _, _, _)
parse_alias_line(t, country, pfxs, i) ==
    IF i > Len(pfxs) THEN t
    ELSE LET m == re_callsign(pfxs[i])
             entry == AliasEntry(country, t.countries[country], m)
             l == Len(m.callsign)
         IN  IF ~m.matched THEN [t EXCEPT !.pc = "raised", !.exc = "AssertionError"]
             ELSE parse_alias_line(
                     [t EXCEPT !.prf_max = IF l > @ THEN l ELSE @,
                               !.exact_callsign =
                                   IF m.full_callsign # Null
                                   THEN Keep(@, m.callsign, entry) ELSE @,
                               !.prefix =
                                   IF m.full_callsign = Null
                                   THEN Keep(@, m.callsign, entry) ELSE @],
                     country, pfxs, i + 1)

\* (faulty variant of callsign_lookup: the shortest prefix first)
ShortestPrefixLookup(t, callsign) ==
    IF callsign \in DOMAIN t.exact_callsign THEN Some(t.exact_callsign[callsign])
    ELSE LET hits == {n \in 0..(t.prf_max - 1) : Take(callsign, n + 1) \in DOMAIN t.prefix}
         IN  IF hits = {} THEN Null
             ELSE Some(t.prefix[Take(callsign, (CHOOSE n \in hits : \A o \in hits : n <= o) + 1)])

\* callsign_lookup(callsign): the exact table, then the prefixes
\* callsign[:n+1] for n from prf_max - 1 down to 0; None for no entry.
callsign_lookup(t, callsign) ==
    IF callsign \in DOMAIN t.exact_callsign THEN Some(t.exact_callsign[callsign])
    ELSE LET hits == {n \in 0..(t.prf_max - 1) : Take(callsign, n + 1) \in DOMAIN t.prefix}
         IN  IF hits = {} THEN Null
             ELSE Some(t.prefix[Take(callsign, (CHOOSE n \in hits : \A o \in hits : n >= o) + 1)])

\* The countries of the files: name and the data of the country line.
CountryData ==
    ("United States" :> [cq |-> <<"5">>, itu |-> <<"8">>, continent |-> "NA",
                         lat |-> "37.53", lon |-> "91.67", gmtoff |-> "5.0", pfx |-> "K"])
    @@ ("Hawaii" :> [cq |-> <<"3", "1">>, itu |-> <<"6", "1">>, continent |-> "OC",
                     lat |-> "21.12", lon |-> "157.48", gmtoff |-> "10.0", pfx |-> "KH6"])

\* The alias prefixes of the files: K, KH6, KH6Z, KH6(2)[3], =KH6ZZZ,
\* =KH6ZZZ(2).
AliasPool ==
    { <<"K">>, <<"K", "H", "6">>, <<"K", "H", "6", "Z">>,
      <<"K", "H", "6", "(", "2", ")", "[", "3", "]">>,
      <<"=", "K", "H", "6", "Z", "Z", "Z">>,
      <<"=", "K", "H", "6", "Z", "Z", "Z", "(", "2", ")">> }

\* The callsigns looked up: KH6ZZZ, KH6 and W1AW.
CallsignPool ==
    { <<"K", "H", "6", "Z", "Z", "Z">>, <<"K", "H", "6">>, <<"W", "1", "A", "W">> }

\* The alias lines of a block, split at the commas.
AliasLists == UNION {[1..n -> AliasPool] : n \in 1..MaxAliases}

\* CTY(filename): the tables are empty before the first line.
InitCty ==
    /\ ServerUnused
    /\ codec = NoCodec
    /\ udp = NoUdp
    /\ cty = [NoCty EXCEPT !.pc = "loading"]
    /\ proc = NoProc

\* CTY.__init__ reads one country block: the country line, then the alias
\* lines up to the one that ends with ';'.
LoadBlock(country, pfxs) ==
    /\ cty.pc = "loading"
    /\ cty.asked = Null
    /\ Len(cty.blocks) < MaxBlocks
    /\ LET t == [cty EXCEPT !.countries =
                      [c \in DOMAIN @ \cup {country} |->
                          IF c = country THEN CountryData[country] ELSE @[c]],
                            !.blocks = Append(@, [country |-> country, pfxs |-> pfxs])]
       IN  cty' = parse_alias_line(t, country, pfxs, 1)
    /\ UNCHANGED <<serverVars, proc, codec, udp>>

\* cty.callsign_lookup(callsign) on the object made from the blocks read.
Lookup(callsign) ==
    /\ cty.pc = "loading"
    /\ cty' = [cty EXCEPT !.asked = Some(callsign),
                          !.found = callsign_lookup(cty, callsign)]
    /\ UNCHANGED <<serverVars, proc, codec, udp>>

NextCty ==
    \/ \E country \in DOMAIN CountryData, pfxs \in AliasLists : LoadBlock(country, pfxs)
    \/ \E callsign \in CallsignPool : Lookup(callsign)

SpecCty == InitCty /\ [][NextCty]_vars

\* ------------------------------------------------- country table: lines

\* Lines of a cty file.
MaxLines == 4

\* Whitespace, as str.strip() and str.split() see it.
Whitespace == {" ", "\t", "\n"}

\* str.lstrip() and str.strip()
RECURSIVE lstrip(_)
lstrip(str) ==
    IF str # <<>> /\ Head(str) \in Whitespace THEN lstrip(Tail(str)) ELSE str

RECURSIVE rstrip(_, _)
rstrip(str, chars) ==
    IF str # <<>> /\ str[Len(str)] \in chars
    THEN rstrip(SubSeq(str, 1, Len(str) - 1), chars) ELSE str

strip(str) == rstrip(lstrip(str), Whitespace)

\* str.endswith(c) for one character
endswith(str, c) == str # <<>> /\ str[Len(str)] = c

\* str.split(sep) for one character
RECURSIVE split(_, _)
split(str, sep) ==
    IF \E i \in 1..Len(str) : str[i] = sep
    THEN LET p == CHOOSE i \in 1..Len(str) :
                     str[i] = sep /\ \A j \in 1..(i - 1) : str[j] # sep
         IN  <<SubSeq(str, 1, p - 1)>> \o split(SubSeq(str, p + 1, Len(str)), sep)
    ELSE <<str>>

\* float(str) raises nothing: digits with at most one point and a sign
\* before them (the forms a cty file has).
IsFloat(str) ==
    LET body == IF str # <<>> /\ Head(str) \in {"-", "+"} THEN Tail(str) ELSE str
    IN  /\ \E i \in 1..Len(body) : body[i] \in Digits
        /\ \A i \in 1..Len(body) : body[i] \in Digits \cup {"."}
        /\ Cardinality({i \in 1..Len(body) : body[i] = "."}) <= 1

\* parse_country_line(line_text): err is the exception raised.
parse_country_line(line_text) ==
    LET l == [i \in 1..Len(split(line_text, ":")) |-> lstrip(split(line_text, ":")[i])]
    IN  IF Len(l) < 8 THEN [err |-> "IndexError", country |-> <<>>, data |-> <<>>]
        ELSE IF ~(IsFloat(l[5]) /\ IsFloat(l[6]) /\ IsFloat(l[7]))
        THEN [err |-> "ValueError", country |-> <<>>, data |-> <<>>]
        ELSE [err |-> NONE, country |-> l[1],
              data |-> [cq |-> l[2], itu |-> l[3], continent |-> l[4], lat |-> l[5],
                        lon |-> l[6], gmtoff |-> l[7], pfx |-> l[8]]]

\* The lines of the files: a country line; the same without its last colon,
\* with 7 fields, with 9 fields and with a latitude that is no number; alias
\* lines that end with ';', with ',' and with neither.
LinePool ==
    { <<"H", "a", "w", "a", "i", "i", ":", " ", "3", "1", ":", " ", "6", "1", ":", " ", "O", "C", ":", " ", "2", "1", ".", "1", "2", ":", " ", "1", "5", "7", ".", "4", "8", ":", " ", "1", "0", ".", "0", ":", " ", "K", "H", "6", ":">>,
      <<"H", "a", "w", "a", "i", "i", ":", " ", "3", "1", ":", " ", "6", "1", ":", " ", "O", "C", ":", " ", "2", "1", ".", "1", "2", ":", " ", "1", "5", "7", ".", "4", "8", ":", " ", "1", "0", ".", "0", ":", " ", "K", "H", "6">>,
      <<"H", "a", "w", "a", "i", "i", ":", " ", "3", "1", ":", " ", "6", "1", ":", " ", "O", "C", ":", " ", "2", "1", ".", "1", "2", ":", " ", "1", "5", "7", ".", "4", "8", ":", " ", "1", "0", ".", "0", ":">>,
      <<"H", "a", "w", "a", "i", "i", ":", " ", "3", "1", ":", " ", "6", "1", ":", " ", "O", "C", ":", " ", "2", "1", ".", "1", "2", ":", " ", "1", "5", "7", ".", "4", "8", ":", " ", "1", "0", ".", "0", ":", " ", "K", "H", "6", ":", " ", "A", "H", "6", ":">>,
      <<"H", "a", "w", "a", "i", "i", ":", " ", "3", "1", ":", " ", "6", "1", ":", " ", "O", "C", ":", " ", "N", "2", "1", ":", " ", "1", "5", "7", ".", "4", "8", ":", " ", "1", "0", ".", "0", ":", " ", "K", "H", "6", ":">>,
      <<" ", " ", " ", " ", "K", "H", "6", ",", "K", "H", "7", ";">>,
      <<" ", " ", " ", " ", "=", "K", "H", "6", "Z", "Z", "Z", "(", "2", ")", ";">>,
      <<" ", " ", " ", " ", "K", "H", "6", ",">>,
      <<" ", " ", " ", " ", "K", "H", "6">> }

\* CTY(filename) before the first line is read.
InitLoad ==
    /\ ServerUnused
    /\ codec = NoCodec
    /\ udp = NoUdp
    /\ cty = [NoCty EXCEPT !.pc = "loading"]
    /\ proc = NoProc

\* One turn of `for line in f` in CTY.__init__.
ReadLine(raw) ==
    /\ cty.pc = "loading"
    /\ Len(cty.lines) < MaxLines
    /\ LET line == strip(raw)
           t == [cty EXCEPT !.lines = Append(@, raw)]
           c == parse_country_line(rstrip(line, {":"}))
       IN  cty' =
             IF cty.current_country = Null
             THEN IF ~endswith(line, ":")
                  THEN [t EXCEPT !.pc = "raised", !.exc = "AssertionError"]
                  ELSE IF c.err # NONE THEN [t EXCEPT !.pc = "raised", !.exc = c.err]
                  ELSE [t EXCEPT !.current_country = Some(c.country),
                                 !.countries =
                                     [k \in DOMAIN @ \cup {c.country} |->
                                         IF k = c.country THEN c.data ELSE @[k]]]
             ELSE IF endswith(line, ":")
             THEN [t EXCEPT !.pc = "raised", !.exc = "AssertionError"]
             ELSE IF endswith(line, ";")
             THEN parse_alias_line(
                      [t EXCEPT !.current_country = Null, !.alias_lines = <<>>],
                      cty.current_country[1],
                      split(cty.alias_lines \o rstrip(line, {";"}), ","), 1)
             ELSE IF ~endswith(line, ",")
             THEN [t EXCEPT !.pc = "raised", !.exc = "AssertionError"]
             ELSE [t EXCEPT !.alias_lines = @ \o line]
    /\ UNCHANGED <<serverVars, proc, codec, udp>>

\* The file has no more lines: the for loop ends and __init__ returns.
EndOfFile ==
    /\ cty.pc = "loading"
    /\ cty' = [cty EXCEPT !.pc = "loaded"]
    /\ UNCHANGED <<serverVars, proc, codec, udp>>

NextLoad ==
    \/ \E raw \in LinePool : ReadLine(raw)
    \/ EndOfFile

SpecLoad == InitLoad /\ [][NextLoad]_vars

\* ------------------------------------------------------------ classifier

\* Words of a decoded text after its first word and its indicator.
MaxWords == 3

Letters == CallChars \ (Digits \cup {"/"})

\* str.split(): the runs of characters that are no whitespace.
RECURSIVE wsplit(_)
wsplit(str) ==
    LET s == lstrip(str)
        n == IF \E i \in 1..Len(s) : s[i] \in Whitespace
             THEN (CHOOSE i \in 1..Len(s) :
                      s[i] \in Whitespace /\ \A j \in 1..(i - 1) : s[j] \notin Whitespace) - 1
             ELSE Len(s)
    IN  IF s = <<>> THEN <<>>
        ELSE <<SubSeq(s, 1, n)>> \o wsplit(SubSeq(s, n + 1, Len(s)))

\* re_indicator.match: ^(\d{3})$|^([A-Z]{1,4})$
re_indicator(tok) ==
    \/ Len(tok) = 3 /\ \A i \in 1..3 : tok[i] \in Digits
    \/ Len(tok) \in 1..4 /\ \A i \in 1..Len(tok) : tok[i] \in Letters

\* re_grid.match: ^[A-R][A-R]\d{2}$
re_grid(tok) ==
    /\ Len(tok) = 4
    /\ \A i \in 1..2 : tok[i] \in Letters \ {"S", "T", "U", "V", "W", "X", "Y", "Z"}
    /\ \A i \in 3..4 : tok[i] \in Digits

\* [A-Z0-9]{1,3}[0-9][A-Z0-9]{0,3}[A-Z], the whole of seg
CoreCall(seg) ==
    /\ \A i \in 1..Len(seg) : seg[i] \in Letters \cup Digits
    /\ \E i \in 1..3, j \in 0..3 :
          /\ Len(seg) = i + j + 2
          /\ seg[i + 1] \in Digits
          /\ seg[Len(seg)] \in Letters

\* (\d|[A-Z])+, the whole of seg
AlphaNum(seg) == seg # <<>> /\ \A i \in 1..Len(seg) : seg[i] \in Letters \cup Digits

\* re_full_callsign.match:
\* ^((\d|[A-Z])+\/)?([A-Z0-9]{1,3}[0-9][A-Z0-9]{0,3}[A-Z])(\/(\d|[A-Z])+)?(\/(\d|[A-Z])+)?$
\* on the segments of tok between its slashes: an optional prefix segment,
\* the core call, at most two suffix segments.
re_full_callsign(tok) ==
    LET segs == split(tok, "/")
    IN  /\ \A i \in 1..Len(segs) : AlphaNum(segs[i])
        /\ \E p \in 0..1 :
              /\ p < Len(segs)
              /\ Len(segs) - p - 1 <= 2
              /\ CoreCall(segs[p + 1])

\* pm as parse_wsjtx_decode_msg makes it first.
NewPm(msg) ==
    [ERROR |-> Null, raw_message |-> msg, mtype |-> "UNKNOWN", caller |-> Null,
     country |-> Null, zone_cq |-> Null, zone_itu |-> Null, continent |-> Null,
     lat |-> Null, lon |-> Null, gmtoff |-> Null, grid |-> Null, peer |-> Null]

\* pm['caller'] = l[0] and the fields of callsign_lookup(pm['caller']),
\* if it is not None.
WithCaller(pm, t, caller) ==
    LET info_data == callsign_lookup(t, caller)
    IN  IF info_data = Null THEN [pm EXCEPT !.caller = Some(caller)]
        ELSE [pm EXCEPT !.caller = Some(caller),
                        !.country = Some(info_data[1].country),
                        !.zone_cq = Some(info_data[1].cq),
                        !.zone_itu = Some(info_data[1].itu),
                        !.continent = Some(info_data[1].continent),
                        !.lat = Some(info_data[1].lat),
                        !.lon = Some(info_data[1].lon),
                        !.gmtoff = Some(info_data[1].gmtoff)]

\* (faulty variant of IsHead: DE is not among the first words)
IsHeadWithoutDE(tok) == tok \in {<<"C", "Q">>, <<"Q", "R", "Z">>}

\* l[0] in ('CQ', 'QRZ', 'DE')
IsHead(tok) == tok \in {<<"C", "Q">>, <<"Q", "R", "Z">>, <<"D", "E">>}

\* (faulty variant of SkipIndicator: no indicator is skipped)
SkipNothing(l) == l

\* `if self.re_indicator.match(l[0])`: l without the indicator; the empty
\* list where the code returns the error, l[0] being the last token.
SkipIndicator(l) == IF re_indicator(l[1]) THEN Tail(l) ELSE l

\* (faulty variant of ReplyGrid: RR73 is taken for a grid)
ReplyGridAny(tok) == re_grid(tok)

\* self.re_grid.match(l[1]) and l[1] != 'RR73'
ReplyGrid(tok) == re_grid(tok) /\ tok # <<"R", "R", "7", "3">>

\* (faulty variant of StripMarginal: the marginal decode info stays)
KeepMarginal(l) == l

\* Strip off marginal decode info: a last token that starts with 'a' or is
\* '?'.
StripMarginal(l) ==
    IF Head(l[Len(l)]) = "a" \/ l[Len(l)] = <<"?">> THEN SubSeq(l, 1, Len(l) - 1) ELSE l

\* parse_wsjtx_decode_msg(msg) on the object t; msg is None or a str.
parse_wsjtx_decode_msg(t, msg) ==
    LET pm == NewPm(msg)
        unknown == [pm EXCEPT !.ERROR = Some("Unknown message")]
    IN  IF msg = Null \/ msg = Some(<<>>) THEN [pm EXCEPT !.ERROR = Some("empty message")]
        ELSE IF \E i \in 1..Len(msg[1]) : msg[1][i] = ";" THEN unknown
        ELSE IF Len(wsplit(msg[1])) < 1 THEN unknown
        ELSE LET l == StripMarginal(wsplit(msg[1]))
             IN  IF Len(l) < 1 THEN unknown
                 ELSE IF IsHead(l[1])
                 THEN LET mtype == IF l[1] = <<"C", "Q">> THEN "CQ"
                                   ELSE IF l[1] = <<"Q", "R", "Z">> THEN "QRZ" ELSE "DE"
                          l2 == IF Len(l) < 2 THEN <<>> ELSE SkipIndicator(Tail(l))
                      IN  IF l2 = <<>> \/ ~re_full_callsign(l2[1])
                          THEN [unknown EXCEPT !.mtype = mtype]
                          ELSE LET pc == WithCaller([pm EXCEPT !.mtype = mtype], t, l2[1])
                                   l3 == Tail(l2)
                               IN  IF Len(l3) = 0 THEN pc
                                   ELSE IF re_full_callsign(l3[1])
                                   THEN [pc EXCEPT
                                           !.peer = Some(l3[1]),
                                           !.grid = IF Len(l3) > 1 /\ re_grid(l3[2])
                                                    THEN Some(l3[2]) ELSE Null]
                                   ELSE [pc EXCEPT
                                           !.grid = IF re_grid(l3[1])
                                                    THEN Some(l3[1]) ELSE Null]
                 ELSE IF Len(l) >= 2 /\ re_full_callsign(l[1])
                 THEN LET pc == WithCaller(pm, t, l[1])
                          l3 == Tail(l)
                      IN  IF re_full_callsign(l3[1])
                          THEN [pc EXCEPT
                                  !.peer = Some(l3[1]),
                                  !.mtype = "REPLAY",
                                  !.grid = IF Len(l3) > 1 /\ ReplyGrid(l3[2])
                                           THEN Some(l3[2]) ELSE Null]
                          ELSE [pc EXCEPT
                                  !.grid = IF re_grid(l3[1]) THEN Some(l3[1]) ELSE Null]
                 ELSE pm

\* The decoded texts are made of a first word, an indicator, up to MaxWords
\* further words and a marginal decode info, each of them optional.
HeadPool == {<<>>, << <<"C", "Q">> >>, << <<"Q", "R", "Z">> >>, << <<"D", "E">> >>}

IndicatorPool == {<<>>, << <<"D", "X">> >>, << <<"0", "0", "0">> >>}

WordPool == { <<"K", "A", "1", "A", "B", "C">>, <<"K", "H", "6", "Z", "Z", "Z">>, <<"Z", "L", "4", "/", "K", "A", "1", "A", "B", "C">>, <<"E", "N", "3", "4">>, <<"R", "R", "7", "3">>, <<"7", "3">> }

MarkerPool == {<<>>, << <<"?">> >>, << <<"a", "1">> >>}

\* ' '.join(words)
RECURSIVE JoinWords(_)
JoinWords(words) ==
    IF words = <<>> THEN <<>>
    ELSE IF Len(words) = 1 THEN words[1]
    ELSE words[1] \o <<" ">> \o JoinWords(Tail(words))

\* The decoded texts: None, blanks, texts with a semicolon and with more
\* blanks than needed, and the texts of the pools with one blank between
\* the words (the empty text among them).
TextPool ==
    {Null, Some(<<" ", " ">>), Some(<<"C", "Q", " ", "K", "A", "1", "A", "B", "C", ";", "E", "N", "3", "4">>), Some(<<"7", "3", ";">>),
     Some(<<" ", " ", "C", "Q", " ", " ", " ", "K", "A", "1", "A", "B", "C", " ", " ", "E", "N", "3", "4", " ">>)}
        \cup {Some(JoinWords(h \o i \o w \o m)) :
                h \in HeadPool, i \in IndicatorPool,
                w \in {<<>>} \cup UNION {[1..n -> WordPool] : n \in 1..MaxWords},
                m \in MarkerPool}

\* The CTY object of the runs of the classifier: K of United States, KH6
\* and =KH6ZZZ(2) of Hawaii.
LoadedCty ==
    parse_alias_line(
        parse_alias_line(
            [NoCty EXCEPT !.pc = "loaded", !.countries = CountryData],
            "United States", << <<"K">> >>, 1),
        "Hawaii", << <<"K", "H", "6">>, <<"=", "K", "H", "6", "Z", "Z", "Z", "(", "2", ")">> >>, 1)

InitParse ==
    /\ ServerUnused
    /\ codec = NoCodec
    /\ udp = NoUdp
    /\ cty = LoadedCty
    /\ proc = NoProc

\* cty.parse_wsjtx_decode_msg(msg)
Parse(msg) ==
    /\ cty.pc = "loaded"
    /\ cty' = [cty EXCEPT !.pc = "parsed", !.msg = msg,
                          !.pm = parse_wsjtx_decode_msg(cty, msg)]
    /\ UNCHANGED <<serverVars, proc, codec, udp>>

\* The result is taken; the object is asked again.
Again ==
    /\ cty.pc = "parsed"
    /\ cty' = [cty EXCEPT !.pc = "loaded", !.msg = <<>>, !.pm = <<>>]
    /\ UNCHANGED <<serverVars, proc, codec, udp>>

NextParse ==
    \/ \E msg \in TextPool : Parse(msg)
    \/ Again

SpecParse == InitParse /\ [][NextParse]_vars

\* ------------------------------------------------------- receive loop

\* Datagrams that arrive in one run.
MaxDatagrams == 3

\* Calls of set_peer in one run.
MaxSetPeer == 1

\* Where datagrams come from: the WSJT-X instance heard first or another.
Addresses == {"a1", "a2"}

\* A Heartbeat datagram.
HeartbeatBytes == join(WireParts(TelegramOf(0, "plain", "v2")))

\* The datagrams: Heartbeat, Status, a Decode that is off air, Close with
\* the id "FT8" and with the id None, a Heartbeat with another magic
\* number, and a Heartbeat that ends inside its last field.
Datagrams ==
    {join(WireParts(TelegramOf(c, "plain", "v2"))) : c \in {0, 1, 2, 6}}
        \cup {join(WireParts(TelegramOf(6, "null", "v3"))),
              join(WireParts(TelegramOf(0, "plain", "badmagic"))),
              Take(HeartbeatBytes, Len(HeartbeatBytes) - 1)}

\* The characters U+0020 .. U+007E, three of them by their names.
AsciiChars ==
    <<
       " ", "!", "quote", "#", "$", "%", "&", "'", "(", ")", "*", "+", ",", "-", ".", "/",
       "0", "1", "2", "3", "4", "5", "6", "7", "8", "9", ":", ";", "<", "=", ">", "?",
       "@", "A", "B", "C", "D", "E", "F", "G", "H", "I", "J", "K", "L", "M", "N", "O",
       "P", "Q", "R", "S", "T", "U", "V", "W", "X", "Y", "Z", "[", "backslash", "]", "^", "_",
       "backtick", "a", "b", "c", "d", "e", "f", "g", "h", "i", "j", "k", "l", "m", "n", "o",
       "p", "q", "r", "s", "t", "u", "v", "w", "x", "y", "z", "{", "|", "}", "~"
    >>

\* chr(cp) as a str of length 1, ord(ch), and the str of a sequence of code
\* points; a code point beyond U+007E is a character that is no letter, no
\* digit and no blank.
chr(cp) == IF cp \in 32..126 THEN AsciiChars[cp - 31] ELSE "non-ascii"

ord(ch) == CHOOSE cp \in 32..126 : AsciiChars[cp - 31] = ch

StrOf(cps) == [i \in 1..Len(cps) |-> chr(cps[i])]

CodePoints(str) == [i \in 1..Len(str) |-> ord(str[i])]

\* WSJTX_Decode(is_new = ..., off_air = ..., message = ...), the other
\* fields as in TelegramOf(2, "plain", "v2").
DecodeTelegram(is_new, off_air, message) ==
    [TelegramOf(2, "plain", "v2") EXCEPT !.kw[5] = Some(is_new), !.kw[11] = message,
                                        !.kw[13] = Some(off_air)]

\* The datagrams of the runs with Decode telegrams: a Heartbeat of the id
\* "FT8" and one of another id; Decode telegrams on air and new with a CQ
\* call and with a text the classifier rejects, one that is not new, one
\* that is off air; Close; a Heartbeat with another magic number.
ConnDatagrams ==
    {join(WireParts(t)) : t \in
        {TelegramOf(0, "plain", "v2"), TelegramOf(0, "nonascii", "v2"),
         DecodeTelegram(1, 0, Some(CodePoints(<<"C", "Q", " ", "K", "A", "1", "A", "B", "C", " ", "E", "N", "3", "4">>))),
         DecodeTelegram(1, 0, Some(CodePoints(<<"C", "Q", " ", "7", "3">>))),
         DecodeTelegram(0, 0, Some(CodePoints(<<"C", "Q", " ", "K", "A", "1", "A", "B", "C", " ", "E", "N", "3", "4">>))),
         DecodeTelegram(1, 1, Some(CodePoints(<<"C", "Q", " ", "K", "A", "1", "A", "B", "C", " ", "E", "N", "3", "4">>))),
         TelegramOf(6, "plain", "v2"), TelegramOf(0, "plain", "badmagic")}}

\* The names set_peer is called with: the two ids and one never heard.
PeerNames == {Some(<<70, 84, 56>>), Some(<<74, 233>>), Some(<<88>>)}

\* main(): cty = CTY(ctyfile), udp_srv = UDP_Connector(cty, tq, addr, port),
\* then the loop.
InitUdp ==
    /\ ServerUnused
    /\ codec = NoCodec
    /\ cty = LoadedCty
    /\ proc = NoProc
    /\ udp = [NoUdp EXCEPT !.pc = "running"]

\* A datagram from address arrives at the socket.
Arrive(dbytes, address) ==
    /\ udp.arrived < MaxDatagrams
    /\ udp' = [udp EXCEPT !.socket = Append(@, <<dbytes, address>>), !.arrived = @ + 1]
    /\ UNCHANGED <<serverVars, proc, codec, cty>>

\* self.peer[id] of a connector
PeerOf(peer, id) == (CHOOSE e \in peer : e[1] = id)[2]

\* `if tel.off_air or not tel.is_new: return` of handle_decode.
DecodeIgnored(tel) == ~(tel.kw[13] = Null \/ tel.kw[13] = Some(0)) \/ tel.kw[5] = Null \/ tel.kw[5] = Some(0)

\* (faulty variant of handle_decode: a message with an error is put on the
\* queue as well)
handle_decode_WithErrors(t, tel, now) ==
    IF DecodeIgnored(tel) THEN Null
    ELSE Some([time |-> now, snr |-> tel.kw[7], delta_t |-> tel.kw[8],
               delta_f |-> tel.kw[9], lf |-> tel.kw[12]]
              @@ parse_wsjtx_decode_msg(
                    t, IF tel.kw[11] = Null THEN Some(<<>>) ELSE Some(StrOf(tel.kw[11][1]))))

\* handle_decode(tel) with the CTY object t at the time now: the message it
\* puts on msg_pipe, or Null.
handle_decode(t, tel, now) ==
    IF DecodeIgnored(tel) THEN Null
    ELSE LET msg == parse_wsjtx_decode_msg(
                       t, IF tel.kw[11] = Null THEN Some(<<>>)
                          ELSE Some(StrOf(tel.kw[11][1])))
         IN  IF msg.ERROR # Null THEN Null
             ELSE Some([time |-> now, snr |-> tel.kw[7], delta_t |-> tel.kw[8],
                        delta_f |-> tel.kw[9], lf |-> tel.kw[12]] @@ msg)

\* WSJTX_Heartbeat(version = '4711').as_bytes()
HeartbeatReply ==
    join(as_parts([class |-> 0,
                   kw |-> <<Some(magic), Some(<<0, 3>>), Some(<<0, 0>>),
                            Some(CodePoints(<<"w", "s", "j", "t", "-", "s", "e", "r", "v", "e", "r">>)), Some(<<0, 3>>),
                            Some(CodePoints(<<"4", "7", "1", "1">>)), Some(<<>>)>>],
                  1, <<>>).parts)

\* (faulty variant of heartbeat: the reply goes to the address the connector
\* heard first)
heartbeat_ToFirst(c, adr) ==
    [c EXCEPT !.sent = @ + 1,
              !.sendto = Append(@, <<HeartbeatReply,
                                     IF c.log = <<>> THEN adr ELSE c.log[1].address>>)]

\* heartbeat() of the connector c whose self.adr is adr: socket.sendto.
heartbeat(c, adr) ==
    [c EXCEPT !.sent = @ + 1, !.sendto = Append(@, <<HeartbeatReply, adr>>)]

\* One turn of `while True: udp_srv.receive()` in main(): recvfrom,
\* from_bytes, the peer bookkeeping and handle(tel): heartbeat(),
\* handle_decode, handle_close.  An exception leaves the loop, as main()
\* catches KeyboardInterrupt only, and so does the sys.exit(0) of
\* handle_close.  time.time() reads the number of the datagram.
UdpReceive ==
    /\ udp.pc = "running"
    /\ udp.socket # <<>>
    /\ \E tel \in {from_bytes(Head(udp.socket)[1])} :
       LET address == Head(udp.socket)[2]
           id == IF tel.err = NONE THEN tel.kw[4] ELSE Null
           peer == IF \E e \in udp.peer : e[1] = id THEN udp.peer
                   ELSE udp.peer \cup {<<id, address>>}
           adr == IF udp.adr = Null THEN Some(address) ELSE udp.adr
           handled == tel.err = NONE /\ adr = Some(address)
           entry == [address |-> address, err |-> tel.err, class |-> tel.class,
                     handled |-> handled,
                     decode |-> IF tel.err = NONE /\ tel.class = 2
                                THEN Some([is_new |-> tel.kw[5], off_air |-> tel.kw[13],
                                           message |-> tel.kw[11]])
                                ELSE Null]
           received == [udp EXCEPT !.socket = Tail(@), !.log = Append(@, entry)]
           seen == [received EXCEPT !.peer = peer, !.adr = adr]
       IN  \E put \in {IF handled /\ tel.class = 2
                       THEN handle_decode(cty, tel, Len(udp.log) + 1) ELSE Null},
              beat \in {IF ~udp.heartbeat_seen \/ tel.class = 0
                        THEN heartbeat(seen, address) ELSE seen} :
              udp' =
                IF tel.err # NONE
                THEN [received EXCEPT !.pc = "raised", !.exc = tel.err,
                                      !.where = "from_bytes"]
                ELSE IF ~handled THEN seen
                ELSE IF tel.class = 2
                THEN [beat EXCEPT !.msg_pipe = IF put = Null THEN @ ELSE Append(@, put[1])]
                ELSE IF tel.class # 6 THEN beat
                ELSE IF PeerOf(peer, id) # address
                THEN [beat EXCEPT !.pc = "raised", !.exc = "AssertionError",
                                  !.where = "handle_close"]
                ELSE [beat EXCEPT !.pc = "exited", !.exc = "SystemExit",
                                  !.where = "handle_close"]
    /\ UNCHANGED <<serverVars, proc, codec, cty>>

NextUdp ==
    \/ \E dbytes \in Datagrams, address \in Addresses : Arrive(dbytes, address)
    \/ UdpReceive

SpecUdp == InitUdp /\ [][NextUdp]_vars

\* (faulty variant of set_peer: self.adr = self.peer.get(peername))
set_peer_Get(peername) ==
    /\ udp.pc = "running"
    /\ Len(udp.set_peer) < MaxSetPeer
    /\ udp' = [udp EXCEPT !.adr = IF \E e \in udp.peer : e[1] = peername
                                  THEN Some(PeerOf(udp.peer, peername)) ELSE Null,
                          !.set_peer = Append(@, peername)]
    /\ UNCHANGED <<serverVars, proc, codec, cty>>

\* udp_srv.set_peer(peername) between two turns of the loop.
set_peer(peername) ==
    /\ udp.pc = "running"
    /\ Len(udp.set_peer) < MaxSetPeer
    /\ udp' = [udp EXCEPT !.adr = IF \E e \in udp.peer : e[1] = peername
                                  THEN Some(PeerOf(udp.peer, peername)) ELSE @,
                          !.set_peer = Append(@, peername)]
    /\ UNCHANGED <<serverVars, proc, codec, cty>>

\* The loop with Decode telegrams and with calls of set_peer.
NextConn ==
    \/ \E dbytes \in ConnDatagrams, address \in Addresses : Arrive(dbytes, address)
    \/ UdpReceive
    \/ \E peername \in PeerNames : set_peer(peername)

SpecConn == InitUdp /\ [][NextConn]_vars

\* ------------------------------------------------------------ the process

\* The datagrams of the runs of main(): a Decode telegram that is on air
\* and new, and Close.
MainDatagrams ==
    {join(WireParts(t)) : t \in
        {DecodeTelegram(1, 0, Some(CodePoints(<<"C", "Q", " ", "K", "A", "1", "A", "B", "C", " ", "E", "N", "3", "4">>))),
         TelegramOf(6, "plain", "v2")}}

\* main() up to its loop: tq = Queue(), ts.start(), cty = CTY(ctyfile),
\* udp_srv = UDP_Connector(cty, tq, addr, port).  The sender thread is at
\* the first time.sleep(1) of its for loop.
InitMain ==
    /\ ServerUnused
    /\ codec = NoCodec
    /\ cty = LoadedCty
    /\ udp = [NoUdp EXCEPT !.pc = "running"]
    /\ proc = [NoProc EXCEPT !.main = "loop", !.ts.pc = "sleep"]

\* sender: time.sleep(1) returns and `if job_done: return` is passed; after
\* SENDING_PERIOD turns the for loop is left.
SenderSleep ==
    /\ proc.ts.pc = "sleep"
    /\ proc' = IF proc.job_done THEN [proc EXCEPT !.ts.pc = "returned"]
               ELSE IF proc.ts.slept + 1 = SENDING_PERIOD
               THEN [proc EXCEPT !.ts.pc = "drain", !.ts.slept = 0]
               ELSE [proc EXCEPT !.ts.slept = @ + 1]
    /\ UNCHANGED <<serverVars, codec, udp, cty>>

\* sender: m = taskQueue.get(False) and ml.append(m), or Empty and
\* isEmpty = True.
SenderGet ==
    /\ proc.ts.pc = "drain"
    /\ IF udp.msg_pipe # <<>>
       THEN /\ proc' = [proc EXCEPT !.ts.ml = Append(@, Head(udp.msg_pipe))]
            /\ udp' = [udp EXCEPT !.msg_pipe = Tail(@)]
       ELSE /\ proc' = [proc EXCEPT !.ts.pc = "post"]
            /\ udp' = udp
    /\ UNCHANGED <<serverVars, codec, cty>>

\* (faulty variant of SenderPost: ml is not emptied)
SenderPost_KeepMl ==
    /\ proc.ts.pc = "post"
    /\ proc' = [proc EXCEPT !.posted = IF proc.ts.ml = <<>> THEN @ ELSE Append(@, proc.ts.ml),
                            !.ts.pc = IF proc.job_done THEN "returned" ELSE "sleep"]
    /\ UNCHANGED <<serverVars, codec, udp, cty>>

\* sender: handle_msg(ml, parsed_url), ml = [] and the test of the while
\* loop.  handle_msg posts ml as one JSON list and catches every Exception.
SenderPost ==
    /\ proc.ts.pc = "post"
    /\ proc' = [proc EXCEPT !.posted = IF proc.ts.ml = <<>> THEN @ ELSE Append(@, proc.ts.ml),
                            !.ts.ml = <<>>,
                            !.ts.pc = IF proc.job_done THEN "returned" ELSE "sleep"]
    /\ UNCHANGED <<serverVars, codec, udp, cty>>

\* main(): KeyboardInterrupt is raised in socket.recvfrom of the loop; the
\* except clause sets job_done and calls ts.join().
KeyboardInterrupt ==
    /\ proc.main = "loop"
    /\ udp.pc = "running"
    /\ udp' = [udp EXCEPT !.pc = "raised", !.exc = "KeyboardInterrupt", !.where = "receive"]
    /\ proc' = [proc EXCEPT !.job_done = TRUE, !.main = "join"]
    /\ UNCHANGED <<serverVars, codec, cty>>

\* main(): ts.join() returns, main() logs 'ft8 monitor exit.' and returns.
Join ==
    /\ proc.main = "join"
    /\ proc.ts.pc = "returned"
    /\ proc' = [proc EXCEPT !.main = "returned"]
    /\ UNCHANGED <<serverVars, codec, udp, cty>>

\* main(): an exception that is no KeyboardInterrupt, or the SystemExit of
\* handle_close, leaves receive(), the loop and main(); the interpreter
\* waits for the sender thread, which is no daemon.
Unwind ==
    /\ proc.main = "loop"
    /\ udp.pc \in {"raised", "exited"}
    /\ proc' = [proc EXCEPT !.main = "shutdown"]
    /\ UNCHANGED <<serverVars, codec, udp, cty>>

\* The interpreter ends the process: the main thread is through and the
\* sender thread has returned.
Exit ==
    /\ proc.main \in {"returned", "shutdown"}
    /\ proc.ts.pc = "returned"
    /\ proc' = [proc EXCEPT !.main = "terminated"]
    /\ UNCHANGED <<serverVars, codec, udp, cty>>

NextMain ==
    \/ \E dbytes \in MainDatagrams, address \in Addresses : Arrive(dbytes, address)
    \/ UdpReceive
    \/ SenderSleep
    \/ SenderGet
    \/ SenderPost
    \/ KeyboardInterrupt
    \/ Join
    \/ Unwind
    \/ Exit

SpecMain == InitMain /\ [][NextMain]_vars

\* The threads take their steps: the sender thread goes on whenever it
\* can, and so do the main thread once it has left its loop and the
\* interpreter.  Inside the loop recvfrom may block for any time.
FairMain ==
    /\ SpecMain
    /\ WF_vars(Join \/ Unwind \/ Exit)
    /\ WF_vars(SenderSleep \/ SenderGet \/ SenderPost)

\* sender: handle_msg(ml, parsed_url) where the POST fails (no connection,
\* or a status that is not 200): handle_msg logs the error and returns,
\* and the sender goes on with ml = [] as after a POST that succeeded.
SenderPostFails ==
    /\ proc.ts.pc = "post"
    /\ proc.ts.ml # <<>>
    /\ proc' = [proc EXCEPT !.failed = Append(@, proc.ts.ml),
                            !.ts.ml = <<>>,
                            !.ts.pc = IF proc.job_done THEN "returned" ELSE "sleep"]
    /\ UNCHANGED <<serverVars, codec, udp, cty>>

\* main() with a web server that can fail.
NextDeliver ==
    \/ NextMain
    \/ SenderPostFails

SpecDeliver == InitMain /\ [][NextDeliver]_vars

\* The threads take their steps, as in FairMain; whether a POST succeeds
\* is up to the network and the web server.
FairDeliver ==
    /\ SpecDeliver
    /\ WF_vars(Join \/ Unwind \/ Exit)
    /\ WF_vars(SenderSleep \/ SenderGet \/ SenderPost \/ SenderPostFails)

\* ------------------------------------------------ the sample forwarder

\* rsp1_forwarder.py: the capacity of the Queue between main() and the
\* thread that writes to stdout.
MAX_DATA_BUFF == 1024000

\* The calls of sock.recv(512) in the loop of a run.
MaxChunks == 3

\* The commands main() sends before it reads: frequency, sample rate, gain
\* mode, gain, LNA state.
SetupCommands == 5

\* What sock.recv(512) returns: sample bytes, or b'' once the server has
\* closed the connection.
Chunks == {<<>>, <<1>>, <<2>>}

\* main() of rsp1_forwarder has not been called.  The record keeps where
\* the main thread is (main), the global job_done, the thread ts running
\* write_to_stdout, the Queue tq, what was written to stdout, the commands
\* sent, the chunks received and the exception that left main (exc).
NoFwd ==
    [main |-> "idle", job_done |-> FALSE, ts |-> [pc |-> "idle"], tq |-> <<>>,
     stdout |-> <<>>, sent |-> 0, received |-> 0, exc |-> NONE]

\* main() after tq = Queue(MAX_DATA_BUFF), the options and ts.start(): the
\* main thread is about to connect, the thread is at the test of its loop.
InitFwd ==
    /\ ServerUnused
    /\ codec = NoCodec
    /\ udp = NoUdp
    /\ cty = NoCty
    /\ proc = [NoFwd EXCEPT !.main = "connect", !.ts.pc = "test"]

\* write_to_stdout: `while not job_done`; when the flag is set the thread
\* logs and returns, else it calls dataq.get().
write_to_stdout_test ==
    /\ proc.ts.pc = "test"
    /\ proc' = [proc EXCEPT !.ts.pc = IF proc.job_done THEN "returned" ELSE "get"]
    /\ UNCHANGED <<serverVars, codec, udp, cty>>

\* write_to_stdout: data = dataq.get() waits without a timeout until the
\* queue holds an item; sys.stdout.buffer.write(data).
write_to_stdout_get ==
    /\ proc.ts.pc = "get"
    /\ proc.tq # <<>>
    /\ proc' = [proc EXCEPT !.stdout = Append(@, Head(proc.tq)), !.tq = Tail(@),
                            !.ts.pc = "test"]
    /\ UNCHANGED <<serverVars, codec, udp, cty>>

\* main(): sock.connect((addr, port)) returns, or raises an OSError
\* (refused, timed out), which no except clause of main() catches.
FwdConnect ==
    /\ proc.main = "connect"
    /\ \E ok \in BOOLEAN :
          proc' = IF ok THEN [proc EXCEPT !.main = "setup"]
                  ELSE [proc EXCEPT !.main = "raised", !.exc = "OSError"]
    /\ UNCHANGED <<serverVars, codec, udp, cty>>

\* main(): one sock.sendall of a command and the sleep(2) after it.
FwdCommand ==
    /\ proc.main = "setup"
    /\ proc' = [proc EXCEPT !.sent = @ + 1,
                            !.main = IF proc.sent + 1 = SetupCommands THEN "header" ELSE @]
    /\ UNCHANGED <<serverVars, codec, udp, cty>>

\* main(): the dongle info and the extended capabilities are read and
\* logged.
FwdHeader ==
    /\ proc.main = "header"
    /\ proc' = [proc EXCEPT !.main = "loop"]
    /\ UNCHANGED <<serverVars, codec, udp, cty>>

\* main(): one turn of `while True: tq.put(sock.recv(512))`; put waits
\* while the queue holds MAX_DATA_BUFF items.
FwdPut(chunk) ==
    /\ proc.main = "loop"
    /\ proc.received < MaxChunks
    /\ Len(proc.tq) < MAX_DATA_BUFF
    /\ proc' = [proc EXCEPT !.tq = Append(@, chunk), !.received = @ + 1]
    /\ UNCHANGED <<serverVars, codec, udp, cty>>

\* main(): KeyboardInterrupt is raised in the main thread, in connect, in a
\* sleep or in a recv; the except clause sets job_done and calls ts.join().
FwdInterrupt ==
    /\ proc.main \in {"connect", "setup", "header", "loop"}
    /\ proc' = [proc EXCEPT !.job_done = TRUE, !.main = "join"]
    /\ UNCHANGED <<serverVars, codec, udp, cty>>

\* main(): ts.join() returns and main() returns.
FwdJoin ==
    /\ proc.main = "join"
    /\ proc.ts.pc = "returned"
    /\ proc' = [proc EXCEPT !.main = "returned"]
    /\ UNCHANGED <<serverVars, codec, udp, cty>>

\* The interpreter ends the process: main() is through, with or without
\* an exception, and the thread, which is no daemon, has returned.
FwdExit ==
    /\ proc.main \in {"returned", "raised"}
    /\ proc.ts.pc = "returned"
    /\ proc' = [proc EXCEPT !.main = "terminated"]
    /\ UNCHANGED <<serverVars, codec, udp, cty>>

NextFwd ==
    \/ write_to_stdout_test
    \/ write_to_stdout_get
    \/ FwdConnect
    \/ FwdCommand
    \/ FwdHeader
    \/ \E chunk \in Chunks : FwdPut(chunk)
    \/ FwdInterrupt
    \/ FwdJoin
    \/ FwdExit

SpecFwd == InitFwd /\ [][NextFwd]_vars

\* Both threads take their steps whenever they can; KeyboardInterrupt and
\* the data of the server come when they come.
FairFwd ==
    /\ SpecFwd
    /\ WF_vars(write_to_stdout_test \/ write_to_stdout_get)
    /\ WF_vars(FwdConnect \/ FwdCommand \/ FwdHeader \/ FwdJoin \/ FwdExit)

\* ------------------------------------------------------ means of means

\* Messages of one minute whose SNRs differ by one: the mean of two of
\* them can lie between two integers.
SnrPool ==
    { [gtime |-> 7205, snr |-> -4, caller |-> "WB9XYZ", country |-> "United States", cq |-> "4"],
      [gtime |-> 7210, snr |-> -5, caller |-> "KA1ABC", country |-> "United States", cq |-> "5"] }

\* The sqlite or DynamoDB server, serving one monitor that hears these
\* messages, with a Persistence Port that succeeds.
NextSnr ==
    \/ Request("h1", {"ft8mon"}, SnrPool)
    \/ PortStep("h1", "ok")

SpecSnr == Init /\ [][NextSnr]_vars

\* ------------------------------------------------------- the claims' terms
\* What a batch should produce, computed from the batch itself and not by
\* the grouping of the code.

MinuteOf(t) == t - (t % MINUTE)
HourOf(t) == t - (t % HOUR)

\* The messages of a batch that have a caller and fall into minute mt.
GroupOf(data, mt) ==
    SelectSeq(data, LAMBDA m : m.caller # NONE /\ MinuteOf(m.gtime) = mt)

\* The minutes and the hours a batch touches.
TouchedMinutes(data) ==
    {MinuteOf(data[i].gtime) : i \in {j \in DOMAIN data : data[j].caller # NONE}}
TouchedHours(data) == {HourOf(mt) : mt \in TouchedMinutes(data)}

RECURSIVE SumSnr(_)
SumSnr(msgs) == IF msgs = <<>> THEN 0 ELSE Head(msgs).snr + SumSnr(Tail(msgs))

\* The rounded arithmetic mean of the SNRs of a non-empty group.
MeanSnr(msgs) == PyRound(SumSnr(msgs), Len(msgs))

CountOf(d, k) == IF k \in DOMAIN d THEN d[k] ELSE 0

\* How many messages of msgs carry each caller, country and CQ zone.
CallerCounts(msgs) ==
    [k \in {msgs[i].caller : i \in DOMAIN msgs} |->
        Cardinality({i \in DOMAIN msgs : msgs[i].caller = k})]
CountryCounts(msgs) ==
    [k \in {msgs[i].country : i \in DOMAIN msgs} \ {NONE} |->
        Cardinality({i \in DOMAIN msgs : msgs[i].country = k})]
CqCounts(msgs) ==
    [k \in {msgs[i].cq : i \in DOMAIN msgs} \ {NONE} |->
        Cardinality({i \in DOMAIN msgs : msgs[i].cq = k})]

\* d is the key-wise sum of a and b.
IsKeywiseSum(d, a, b) ==
    /\ DOMAIN d = DOMAIN a \cup DOMAIN b
    /\ \A k \in DOMAIN d : d[k] = CountOf(a, k) + CountOf(b, k)

\* The rows of a table with the key (monitor, band, ctime).
RowsAt(tb, monitor, band, ctime) ==
    {row \in tb : row.monitor = monitor /\ row.band = band /\ row.ctime = ctime}

RECURSIVE SumTotals(_)
SumTotals(rows) ==
    IF rows = {} THEN 0
    ELSE LET row == CHOOSE x \in rows : TRUE
         IN  row.total + SumTotals(rows \ {row})

\* The call of handler h1 has returned None.
Returned == frame["h1"].pc = "done" /\ frame["h1"].result = NONE

\* No handler is inside a call.
Quiescent == \A p \in Handlers : frame[p].pc \in {"idle", "done"}

\* ------------------------------------------------------------------ claims

\* C1: after any sequence of ingests for a fixed (monitor, band), starting
\* from an empty store and with every Persistence Port call succeeding, the
\* total of every stored hour bucket equals the sum of the totals of the
\* stored minute buckets of that hour, also when a batch spans several
\* hours.  (With rows of one (monitor, band) only, no call has failed: the
\* one failure of this specification is the primary-key clash of two keys.)
C1_HourConsistency ==
    \A monitor \in Monitors, band \in Bands :
        ( /\ Quiescent
          /\ \A row \in tb_minutes \cup tb_hours :
                row.monitor = monitor /\ row.band = band )
        => \A h \in tb_hours :
              h.total = SumTotals({row \in tb_minutes : HourOf(row.ctime) = h.ctime})

\* C2: when ingest finds a minute bucket for (monitor, band, minute), the
\* bucket written back has the old message list followed by the group's
\* messages, total = old total + group total, mean SNR =
\* round((old_mean*old_total + new_mean*new_total)/(old_total+new_total)),
\* and country, CQ-zone and caller maps that are the key-wise sums.
C2_MinuteMerge ==
    LET f == frame["h1"]
    IN  Returned =>
          \A mt \in TouchedMinutes(f.data) :
            \A old \in RowsAt(f.pre_minutes, f.monitor, f.band, mt) :
              LET msgs == GroupOf(f.data, mt)
              IN  \E new \in RowsAt(tb_minutes, f.monitor, f.band, mt) :
                    /\ RowsAt(tb_minutes, f.monitor, f.band, mt) = {new}
                    /\ new.messages = old.messages \o msgs
                    /\ new.total = old.total + Len(msgs)
                    /\ new.snr = PyRound(old.snr * old.total + MeanSnr(msgs) * Len(msgs),
                                         old.total + Len(msgs))
                    /\ IsKeywiseSum(new.countries, old.countries, CountryCounts(msgs))
                    /\ IsKeywiseSum(new.cqs, old.cqs, CqCounts(msgs))
                    /\ IsKeywiseSum(new.callers, old.callers, CallerCounts(msgs))

\* C2 witness: a bucket of two messages with mean -10 has been merged with
\* a group of one message of SNR -5 and holds total 3, mean round(-25/3) = -8
\* and a caller counted twice.
C2_Witness ==
    LET f == frame["h1"]
    IN  /\ Returned
        /\ \E mt \in TouchedMinutes(f.data) :
              /\ \E old \in RowsAt(f.pre_minutes, f.monitor, f.band, mt) :
                    old.total = 2 /\ old.snr = -10
              /\ \E new \in RowsAt(tb_minutes, f.monitor, f.band, mt) :
                    /\ new.total = 3 /\ new.snr = -8 /\ Len(new.messages) = 3
                    /\ \E k \in DOMAIN new.callers : new.callers[k] = 2

\* The minute bucket a group of messages creates.
ExpectedMinute(monitor, band, mt, msgs) ==
    [ctime |-> mt, monitor |-> monitor, band |-> band,
     messages |-> msgs, total |-> Len(msgs), snr |-> MeanSnr(msgs),
     countries |-> CountryCounts(msgs), cqs |-> CqCounts(msgs),
     callers |-> CallerCounts(msgs)]

\* C3: an ingest into an empty store counts only the messages with a
\* caller: one minute bucket per distinct minute of these, with their
\* number, the rounded mean of their SNRs and their per-country, per-zone
\* and per-caller counts, and one hour bucket per touched hour with the
\* number of these messages in the hour; messages without a caller are in
\* no bucket.
C3_IngestIntoEmptyStore ==
    LET f == frame["h1"]
    IN  (Returned /\ f.pre_minutes = {} /\ f.pre_hours = {}) =>
          IF TouchedMinutes(f.data) = {}
          THEN \A row \in tb_minutes \cup tb_hours : row.total = 0
          ELSE /\ tb_minutes =
                    {ExpectedMinute(f.monitor, f.band, mt, GroupOf(f.data, mt)) :
                        mt \in TouchedMinutes(f.data)}
               /\ {h.ctime : h \in tb_hours} = TouchedHours(f.data)
               /\ \A h \in tb_hours :
                    /\ RowsAt(tb_hours, f.monitor, f.band, h.ctime) = {h}
                    /\ h.total = Cardinality({i \in DOMAIN f.data :
                                    /\ f.data[i].caller # NONE
                                    /\ HourOf(f.data[i].gtime) = h.ctime})

\* C3 witness: three messages of one minute, two with callers at SNR -5 and
\* -15 and one without, have made one minute bucket with total 2 and mean
\* -10 and one hour bucket with total 2.
C3_Witness ==
    LET f == frame["h1"]
    IN  /\ Returned /\ f.pre_minutes = {} /\ f.pre_hours = {}
        /\ Len(f.data) = 3
        /\ \E i \in DOMAIN f.data : f.data[i].caller = NONE
        /\ Cardinality(tb_minutes) = 1
        /\ \A row \in tb_minutes : row.total = 2 /\ row.snr = -10
        /\ Cardinality(tb_hours) = 1
        /\ \A h \in tb_hours : h.total = 2

\* C4: every touched minute is folded into its hour bucket with the rule
\* of the minute merge: the hour's mean SNR after the ingest is the rounded
\* total-weighted mean of the previous hour mean and the touched minutes'
\* group means.  Stated for the case the claim singles out: an hour without
\* a previous bucket and with one touched minute gets that minute's group
\* mean as its mean SNR.
C4_HourFoldWeightedMean ==
    LET f == frame["h1"]
    IN  (Returned /\ ~f.write_err) =>
          \A hr \in TouchedHours(f.data) :
            LET mts == {mt \in TouchedMinutes(f.data) : HourOf(mt) = hr}
                prev == RowsAt(f.pre_hours, f.monitor, f.band, hr)
            IN  (Cardinality(mts) = 1 /\ prev = {}) =>
                  \A h \in RowsAt(tb_hours, f.monitor, f.band, hr) :
                    \A mt \in mts : h.snr = MeanSnr(GroupOf(f.data, mt))

\* The call of handler h1 repeats the call before it.
SameAsLast ==
    LET f == frame["h1"]
    IN  /\ f.last.called
        /\ f.last.monitor = f.monitor /\ f.last.band = f.band /\ f.last.data = f.data

\* C5 as stated: ingesting the same batch a second time for the same
\* (monitor, band) leaves every minute and hour bucket as the first ingest
\* left it.  (Stated for batches with a caller message: a batch without one
\* writes idle buckets that depend on the clock.)
C5_Idempotent ==
    LET f == frame["h1"]
    IN  (Returned /\ SameAsLast /\ TouchedMinutes(f.data) # {})
        => tb_minutes = f.pre_minutes /\ tb_hours = f.pre_hours

\* C5 as amended: the merge is additive, not idempotent.  Ingesting the
\* same batch a second time merges it again into every minute bucket found
\* for a touched minute: the total grows by the group's total and the
\* message list is extended by the group's messages once more.
C5_ReingestAccumulates ==
    LET f == frame["h1"]
    IN  (Returned /\ SameAsLast) =>
          \A mt \in TouchedMinutes(f.data) :
            \A old \in RowsAt(f.pre_minutes, f.monitor, f.band, mt) :
              /\ RowsAt(tb_minutes, f.monitor, f.band, mt) # {}
              /\ \A new \in RowsAt(tb_minutes, f.monitor, f.band, mt) :
                    /\ new.total = old.total + Len(GroupOf(f.data, mt))
                    /\ new.total > old.total
                    /\ new.messages = old.messages \o GroupOf(f.data, mt)

\* C5 witness: a batch of one message has been ingested twice in a row and
\* its minute bucket holds the message twice.
C5_Witness ==
    LET f == frame["h1"]
    IN  /\ Returned /\ SameAsLast /\ Len(f.data) = 1
        /\ \E mt \in TouchedMinutes(f.data) :
              \E new \in RowsAt(tb_minutes, f.monitor, f.band, mt) :
                 new.total = 2 /\ new.messages = f.data \o f.data

\* C6: in every reachable state at most one minute bucket exists per
\* (monitor, band, minute) and at most one hour bucket per (monitor, band,
\* hour); an upsert on a key that has a record replaces the record.
C6_OneBucketPerKey ==
    /\ \A a, b \in tb_minutes : SameKey(a, b) => a = b
    /\ \A a, b \in tb_hours : SameKey(a, b) => a = b
    /\ LET f == frame["h1"]
       IN  Returned =>
             \A mt \in TouchedMinutes(f.data) :
               \A old \in RowsAt(f.pre_minutes, f.monitor, f.band, mt) :
                  /\ Cardinality(RowsAt(tb_minutes, f.monitor, f.band, mt)) = 1
                  /\ old \notin tb_minutes

\* C6 witness: two monitors hold buckets, and the last ingest has written a
\* minute and an hour whose keys had a record before.
C6_Witness ==
    LET f == frame["h1"]
    IN  /\ Returned
        /\ \E a, b \in tb_minutes : a.monitor # b.monitor
        /\ \E mt \in TouchedMinutes(f.data) :
              /\ RowsAt(f.pre_minutes, f.monitor, f.band, mt) # {}
              /\ RowsAt(f.pre_hours, f.monitor, f.band, HourOf(mt)) # {}
              /\ RowsAt(tb_hours, f.monitor, f.band, HourOf(mt)) # {}

\* C7: a batch without a caller message writes an idle minute bucket
\* (total 0, empty list and maps) when (monitor, band) has no bucket for the
\* current minute, and an idle hour bucket when it has none for the current
\* hour; a bucket that exists is left unchanged; a batch with a caller
\* message writes no idle bucket.
C7_IdleBuckets ==
    LET f == frame["h1"]
        m == MinuteOf(f.current_time)
        h == HourOf(f.current_time)
    IN  Returned =>
          IF TouchedMinutes(f.data) = {}
          THEN /\ RowsAt(tb_minutes, f.monitor, f.band, m) =
                    IF RowsAt(f.pre_minutes, f.monitor, f.band, m) = {}
                    THEN {IdleMinute(f.monitor, f.band, m)}
                    ELSE RowsAt(f.pre_minutes, f.monitor, f.band, m)
               /\ RowsAt(tb_hours, f.monitor, f.band, h) =
                    IF RowsAt(f.pre_hours, f.monitor, f.band, h) = {}
                    THEN {Hours_Record(f.monitor, f.band, h)}
                    ELSE RowsAt(f.pre_hours, f.monitor, f.band, h)
          ELSE /\ \A row \in tb_minutes \ f.pre_minutes : row.total > 0
               /\ \A row \in tb_hours \ f.pre_hours : row.total > 0

\* C7 restricted to a store that holds buckets of the reporting
\* (monitor, band) only.
C7_IdleBucketsOneKey ==
    LET f == frame["h1"]
    IN  (\A row \in f.pre_minutes \cup f.pre_hours :
            row.monitor = f.monitor /\ row.band = f.band)
        => C7_IdleBuckets

\* C8: when a Persistence Port write reports a failure during an ingest,
\* save_monitor_data returns a non-null error value; it returns null only
\* when every bucket write of the ingest succeeded.
C8_WriteFailureReturned ==
    LET f == frame["h1"]
    IN  (f.pc = "done" /\ f.write_err) => f.result # NONE

\* C9: no failure escapes ingest as an exception: when a Persistence Port
\* call raises, save_monitor_data returns an error string; and nothing is
\* retried: within one ingest no minute or hour key is read twice or
\* written twice.
C9_NoEscapeNoRetry ==
    LET f == frame["h1"]
    IN  /\ ~f.escaped
        /\ (f.pc = "done" /\ f.raised) => f.result = ERR
        /\ (f.pc = "done" /\ ~f.raised) => f.result = NONE
        /\ \A i, j \in DOMAIN f.log : f.log[i] = f.log[j] => i = j

\* C9 witness: a call that had read and written a minute returned the
\* error string after a Persistence Port call raised.
C9_Witness ==
    LET f == frame["h1"]
    IN  /\ f.pc = "done" /\ f.raised /\ f.result = ERR
        /\ \E i, j \in DOMAIN f.log : f.log[i][1] = "read" /\ f.log[j][1] = "write"
        /\ Len(f.log) >= 3

\* C10: read-modify-write merges on one (monitor, band, bucket) key are
\* serialized: two concurrent ingests leave the buckets some sequential
\* order of the two leaves, so no update is lost: the total of a minute
\* bucket both batches have messages for is the sum of the two counts.
C10_NoLostUpdate ==
    LET f == frame["h1"]
        g == frame["h2"]
    IN  ( /\ f.pc = "done" /\ g.pc = "done"
          /\ f.monitor = g.monitor /\ f.band = g.band )
        => \A mt \in TouchedMinutes(f.data) \cap TouchedMinutes(g.data) :
              \A row \in RowsAt(tb_minutes, f.monitor, f.band, mt) :
                 row.total = Len(GroupOf(f.data, mt)) + Len(GroupOf(g.data, mt))

\* The rows of (monitor, band) in a table whose ctime lies between the
\* floors of begin and end, the ends included.
InRange(tb, monitor, band, begin, end, width) ==
    {row \in tb : /\ row.monitor = monitor /\ row.band = band
                  /\ begin - (begin % width) <= row.ctime
                  /\ row.ctime <= end - (end % width)}

\* What the last read should have found.
Wanted ==
    IF fetched.table = "minutes"
    THEN InRange(tb_minutes, fetched.monitor, fetched.band, fetched.begin, fetched.end, MINUTE)
    ELSE InRange(tb_hours, fetched.monitor, fetched.band, fetched.begin, fetched.end, HOUR)

OnlineMinutes(m) ==
    {mt \in {BaseTime - MINUTE, BaseTime, BaseTime + MINUTE} :
        /\ sender[m].started
        /\ sender[m].boot <= mt
        /\ mt + MINUTE <= sender[m].last_post}

\* Monitor m has heard a message with a caller in minute mt.
HeardIn(m, mt) ==
    \E i \in DOMAIN sender[m].heard :
        /\ sender[m].heard[i].caller # NONE
        /\ MinuteOf(sender[m].heard[i].time) = mt

\* C12: as long as a monitor is online, i.e. its sender posts a (possibly
\* empty) batch every SENDING_PERIOD seconds and every post is ingested,
\* exactly one minute record exists for every minute of the online interval
\* for that (monitor, band), the record of a minute without a decoded
\* message being the idle one (empty message list, total 0); likewise
\* exactly one hour record exists for the hour.
C12_OneRecordPerOnlineMinute ==
    ServerIdle =>
      \A m \in Monitors : \A mt \in OnlineMinutes(m) :
         /\ Cardinality(RowsAt(tb_minutes, m, "50.313", mt)) = 1
         /\ ~HeardIn(m, mt) => RowsAt(tb_minutes, m, "50.313", mt) = {IdleMinute(m, "50.313", mt)}
         /\ Cardinality(RowsAt(tb_hours, m, "50.313", HourOf(mt))) = 1

\* C12 on the DynamoDB backend, whose key is (monitor_band, ctime).
C12_OneRecordPerOnlineMinuteDynamodb ==
    backend = "dynamodb" => C12_OneRecordPerOnlineMinute

\* Two monitors are online over a whole minute, on DynamoDB, and each has
\* its record of the minute.
C12_WitnessDynamodb ==
    /\ backend = "dynamodb" /\ ServerIdle
    /\ \A m \in Monitors : BaseTime \in OnlineMinutes(m)
    /\ \E m \in Monitors : ~HeardIn(m, BaseTime)

\* ---------------------------------------------------------------- C13

\* C13: for every registered telegram type and every telegram t that can
\* be made, t.as_bytes() raises nothing and from_bytes(t.as_bytes()) is a
\* telegram of the class of t whose every field equals that of t.
C13_RoundTrip ==
    codec.pc \in {"encoded", "back"} /\ codec.tel.class # BASE
        => /\ codec.err = NONE
           /\ codec.pc = "back" => codec.out = Telegram(codec.tel.class, codec.tel.kw)

\* The round trip restricted to telegrams whose strings are ASCII or null
\* and whose optional integer is null.
AsciiOnly(tel) ==
    \A i \in 1..Len(tel.kw) :
        /\ format(tel.class)[i][2] = "qutf8" /\ tel.kw[i] # Null
              => \A j \in 1..Len(tel.kw[i][1]) : tel.kw[i][1][j] < 128
        /\ format(tel.class)[i][2] = "opt_quint8" => tel.kw[i] = Null

C13_RoundTripAscii ==
    codec.pc \in {"encoded", "back"} /\ codec.tel.class # BASE /\ AsciiOnly(codec.tel)
        => /\ codec.err = NONE
           /\ codec.pc = "back" => codec.out = Telegram(codec.tel.class, codec.tel.kw)

C13_WitnessAscii ==
    /\ codec.pc = "back"
    /\ codec.tel.class = 5
    /\ codec.tel.kw[5][1].timespec = 1
    /\ codec.tel.kw[6] = Null
    /\ codec.out = Telegram(5, codec.tel.kw)

\* ---------------------------------------------------------------- C14

\* The decode of the whole datagram that was sent.
FullDecode == from_bytes(join(codec.parts))

\* A datagram of a registered type, decodable as a whole, was cut off after
\* its first k fields and decoded.
CutDecoded ==
    /\ codec.pc = "received"
    /\ codec.k < Len(codec.parts)
    /\ codec.tel.class # BASE
    /\ FullDecode.err = NONE

\* Field i of a decoded telegram; a field its class does not have is None.
FieldOf(tel, i) == IF i <= Len(tel.kw) THEN tel.kw[i] ELSE Null

\* The fields up to k are those of the full decode, the later ones None.
CutFields ==
    \A i \in 1..Len(FullDecode.kw) :
        FieldOf(codec.out, i) = IF i <= codec.k THEN FullDecode.kw[i] ELSE Null

\* C14 (as stated): for every registered type and every k, decoding a
\* datagram cut off after field k gives, without error, a telegram whose
\* fields after k are None and whose fields up to k are those of the decode
\* of the whole datagram.
C14_TruncationAnyK == CutDecoded => codec.out.err = NONE /\ CutFields

\* C14 (amended): the same for every k >= 3, where magic, schema version
\* and type are in the datagram, and the telegram is of the type sent; a
\* datagram cut after magic and schema version decodes to a WSJTX_Telegram
\* with type and id None, and one cut before the schema version is
\* rejected with an exception.
C14_TruncationBehindHeader ==
    CutDecoded =>
        IF codec.k >= 3
        THEN codec.out.err = NONE /\ codec.out.class = codec.tel.class /\ CutFields
        ELSE IF codec.k = 2
        THEN codec.out = Telegram(BASE, <<FullDecode.kw[1], FullDecode.kw[2], Null, Null>>)
        ELSE codec.out.err \in {"AssertionError", "TypeError"}

\* A QSO Logged telegram cut off after dx_grid (field 7) has been decoded.
C14_Witness ==
    /\ CutDecoded
    /\ codec.tel.class = 5
    /\ codec.k = 7
    /\ codec.out.err = NONE
    /\ codec.out.kw[7] = Some(<<70, 84, 56>>)
    /\ codec.out.kw[8] = Null

\* ---------------------------------------------------------------- C15

\* A whole datagram, as WSJT-X sent it, has been decoded.
WholeDecoded == codec.pc = "received" /\ codec.k = Len(codec.parts)

\* C15: a datagram with another magic number is rejected with an
\* exception; a complete datagram with the magic number, of any schema
\* version and any type, decodes without one, and one of a type that is not
\* registered gives a WSJTX_Telegram with the header only.
C15_FailsOnlyOnMagic ==
    WholeDecoded =>
        IF codec.tel.kw[1] # Some(magic) THEN codec.out.err # NONE
        ELSE /\ codec.out.err = NONE
             /\ codec.tel.class = BASE => codec.out = Telegram(BASE, codec.tel.kw)

\* What the decode of a complete datagram does fail on: another magic
\* number, a schema version above schema_version_number, and a datetime
\* whose timespec is 2.
C15_FailsOnMagicVersionOffset ==
    WholeDecoded =>
        IF codec.tel.kw[1] # Some(magic) THEN codec.out.err = "AssertionError"
        ELSE IF codec.tel.kw[2][1][2] > schema_version_number
        THEN codec.out.err = "AssertionError"
        ELSE IF codec.tel.class = 5 /\ codec.tel.kw[5][1].timespec = 2
        THEN codec.out.err = "ValueError"
        ELSE codec.out = Telegram(codec.tel.class, codec.tel.kw)

C15_WitnessUnknownType ==
    /\ WholeDecoded
    /\ codec.tel.class = BASE
    /\ codec.out = Telegram(BASE, codec.tel.kw)
    /\ codec.out.kw[3] = Some(<<0, UnknownType>>)

\* ---------------------------------------------------------------- C17

\* The serialization_size of field i of the class c, deserialized from
\* where it begins in the datagram.
ConsumedBy(c, i) ==
    DeserializeField(format(c)[i][2],
                     Drop(codec.bytes, Len(join(Take(codec.parts, i - 1))))).size

\* C17: the decode of a QSO Logged datagram takes 13 bytes for a datetime
\* whose timespec is not 2 and gives it the offset None, takes 17 bytes for
\* one whose timespec is 2 and gives it the offset sent, and in both cases
\* succeeds with the fields behind the datetime read as they were sent.
C17_DateTimeDecodes ==
    WholeDecoded /\ codec.tel.class = 5 /\ Telegram_init(5, codec.tel.kw) = NONE
        => /\ codec.out.err = NONE
           /\ codec.out.kw = codec.tel.kw
           /\ ConsumedBy(5, 5) = IF codec.tel.kw[5][1].timespec = 2 THEN 17 ELSE 13
           /\ codec.out.kw[5][1].offset
                 = IF codec.tel.kw[5][1].timespec = 2 THEN Some(3600) ELSE Null

\* The part of it that holds: the case of a timespec that is not 2.
C17_DateTimeWithoutOffset ==
    WholeDecoded /\ codec.tel.class = 5 /\ Telegram_init(5, codec.tel.kw) = NONE
                 /\ codec.tel.kw[5][1].timespec # 2
        => /\ codec.out.err = NONE
           /\ codec.out.kw = codec.tel.kw
           /\ ConsumedBy(5, 5) = 13
           /\ codec.out.kw[5][1].offset = Null

C17_WitnessWithoutOffset ==
    /\ WholeDecoded
    /\ codec.tel.class = 5
    /\ codec.tel.kw[5][1].timespec = 0
    /\ codec.out.err = NONE
    /\ codec.out.kw[5][1].offset = Null
    /\ codec.out.kw[6] = Some(<<>>)

\* ---------------------------------------------------------------- C18

\* The encoding of a string the protocol asks for: the number of its UTF-8
\* bytes in 4 bytes, then the bytes; 0xFFFFFFFF and nothing for None.
StringBytes(v) ==
    IF v = Null THEN <<255, 255, 255, 255>>
    ELSE <<0, 0, 0, Len(encode(v[1]))>> \o encode(v[1])

\* The string fields among the first n fields of the telegram.
StringFields(n) == {i \in 1..n : format(codec.tel.class)[i][2] = "qutf8"}

\* Every string field as_bytes has written is encoded as asked for.
StringsEncoded ==
    codec.pc = "encoded"
        => \A i \in StringFields(Len(codec.parts)) : codec.parts[i] = StringBytes(codec.tel.kw[i])

\* Every string field of a datagram deserializes to the string sent, None
\* to None and the empty string to the empty string, and takes 4 bytes and
\* the length.
StringsDecoded ==
    codec.pc = "sent"
        => \A i \in StringFields(Len(codec.parts)) :
              LET r == UTF8_String_deserialize(
                           Drop(codec.bytes, Len(join(Take(codec.parts, i - 1)))))
              IN  /\ codec.parts[i] = StringBytes(codec.tel.kw[i])
                  /\ r.err = NONE
                  /\ r.value = codec.tel.kw[i]
                  /\ r.size = Len(StringBytes(codec.tel.kw[i]))

\* C18: a string field is encoded as the 4-byte big-endian number of its
\* UTF-8 bytes followed by those bytes, None as 0xFFFFFFFF without bytes;
\* None decodes to None and not to the empty string, and the decode takes
\* 4 bytes and the length.
C18_StringCodec == StringsEncoded /\ StringsDecoded

\* The decoding half.
C18_StringDecoding == StringsDecoded

C18_WitnessDecoding ==
    /\ codec.pc = "sent"
    /\ codec.tel.class = 0
    /\ codec.tel.kw[6] = Some(<<74, 233>>)
    /\ codec.parts[6] = <<0, 0, 0, 3, 74, 195, 169>>

\* ---------------------------------------------------------------- C16

\* C16: a datagram that from_bytes raises on is dropped and the main loop
\* goes on: it is not ended by an exception of from_bytes.
C16_DecodeErrorNotFatal ==
    \A i \in 1..Len(udp.log) : udp.log[i].err # NONE => udp.pc = "running"

\* What holds: a receive that raises nothing leaves the loop running
\* unless the telegram is a Close from the preferred peer.
C16_LoopRunsOnGoodTelegrams ==
    (\A i \in 1..Len(udp.log) :
        udp.log[i].err = NONE /\ ~(udp.log[i].class = 6 /\ udp.log[i].handled))
            => udp.pc = "running"

C16_WitnessGoodTelegrams ==
    /\ Len(udp.log) = MaxDatagrams
    /\ \A i \in 1..Len(udp.log) : udp.log[i].err = NONE /\ udp.log[i].handled
    /\ udp.log[2].class = 2
    /\ udp.sent = MaxDatagrams
    /\ udp.pc = "running"

\* ---------------------------------------------------------------- C19

\* The prefixes of callsign, of length 1 and more, that are in the prefix
\* table.
PrefixesIn(callsign) ==
    {n \in 1..Len(callsign) : SubSeq(callsign, 1, n) \in DOMAIN cty.prefix}

\* C19: callsign_lookup(c) is the entry of c in the exact table when there
\* is one, even when a prefix of c is in the prefix table; else the entry
\* of the longest prefix of c that is in the prefix table; else None.
C19_ExactThenLongestPrefix ==
    cty.asked # Null =>
        LET c == cty.asked[1]
        IN  IF c \in DOMAIN cty.exact_callsign
            THEN cty.found = Some(cty.exact_callsign[c])
            ELSE IF PrefixesIn(c) = {} THEN cty.found = Null
            ELSE \E n \in PrefixesIn(c) :
                    /\ \A o \in PrefixesIn(c) : o <= n
                    /\ cty.found = Some(cty.prefix[SubSeq(c, 1, n)])

\* With the prefixes K, KH6 and KH6Z in the table and no exact entry,
\* KH6ZZZ has been looked up and the entry of KH6Z, of Hawaii, returned.
C19_Witness ==
    /\ cty.asked = Some(<<"K", "H", "6", "Z", "Z", "Z">>)
    /\ cty.exact_callsign = <<>>
    /\ DOMAIN cty.prefix = {<<"K">>, <<"K", "H", "6">>, <<"K", "H", "6", "Z">>}
    /\ cty.prefix[<<"K">>].country = "United States"
    /\ cty.prefix[<<"K", "H", "6">>].country = "United States"
    /\ cty.prefix[<<"K", "H", "6", "Z">>].country = "Hawaii"
    /\ cty.found = Some(cty.prefix[<<"K", "H", "6", "Z">>])

\* ---------------------------------------------------------------- C20

\* What the alias prefixes of the files say: exact callsign or prefix, the
\* callsign, and the CQ and ITU zones they override.
AliasMeaning(pfx) ==
    CASE pfx = <<"K">> ->
            [exact |-> FALSE, callsign |-> <<"K">>, cq |-> Null, itu |-> Null]
      [] pfx = <<"K", "H", "6">> ->
            [exact |-> FALSE, callsign |-> <<"K", "H", "6">>, cq |-> Null, itu |-> Null]
      [] pfx = <<"K", "H", "6", "Z">> ->
            [exact |-> FALSE, callsign |-> <<"K", "H", "6", "Z">>, cq |-> Null, itu |-> Null]
      [] pfx = <<"K", "H", "6", "(", "2", ")", "[", "3", "]">> ->
            [exact |-> FALSE, callsign |-> <<"K", "H", "6">>,
             cq |-> Some(<<"2">>), itu |-> Some(<<"3">>)]
      [] pfx = <<"=", "K", "H", "6", "Z", "Z", "Z">> ->
            [exact |-> TRUE, callsign |-> <<"K", "H", "6", "Z", "Z", "Z">>,
             cq |-> Null, itu |-> Null]
      [] OTHER ->
            [exact |-> TRUE, callsign |-> <<"K", "H", "6", "Z", "Z", "Z">>,
             cq |-> Some(<<"2">>), itu |-> Null]

\* The places of the input, block and position, that define the callsign
\* as an exact one (resp. as a prefix).
Occurrences(exact, callsign) ==
    {o \in (1..Len(cty.blocks)) \X (1..MaxAliases) :
        /\ o[2] <= Len(cty.blocks[o[1]].pfxs)
        /\ AliasMeaning(cty.blocks[o[1]].pfxs[o[2]]).exact = exact
        /\ AliasMeaning(cty.blocks[o[1]].pfxs[o[2]]).callsign = callsign}

\* The first of them.
FirstOccurrence(exact, callsign) ==
    CHOOSE o \in Occurrences(exact, callsign) :
        \A q \in Occurrences(exact, callsign) :
            o[1] < q[1] \/ (o[1] = q[1] /\ o[2] <= q[2])

\* The entry the occurrence o asks for: the defaults of the country of its
\* block, with the zones the alias prefix overrides.
EntryAsked(o) ==
    LET country == cty.blocks[o[1]].country
        a == AliasMeaning(cty.blocks[o[1]].pfxs[o[2]])
    IN  [country |-> country,
         cq |-> IF a.cq # Null THEN a.cq[1] ELSE CountryData[country].cq,
         itu |-> IF a.itu # Null THEN a.itu[1] ELSE CountryData[country].itu,
         continent |-> CountryData[country].continent,
         lat |-> CountryData[country].lat,
         lon |-> CountryData[country].lon,
         gmtoff |-> CountryData[country].gmtoff]

\* C20: after any sequence of country blocks the exact table (resp. the
\* prefix table) holds, for every callsign the input defines as exact
\* (resp. as a prefix), the entry its first occurrence asks for: the
\* defaults of that country with the '(n)' and '[n]' of that alias prefix;
\* later definitions change nothing.
C20_FirstOccurrenceWins ==
    /\ DOMAIN cty.exact_callsign
          = {c \in {AliasMeaning(p).callsign : p \in AliasPool} : Occurrences(TRUE, c) # {}}
    /\ DOMAIN cty.prefix
          = {c \in {AliasMeaning(p).callsign : p \in AliasPool} : Occurrences(FALSE, c) # {}}
    /\ \A c \in DOMAIN cty.exact_callsign :
          cty.exact_callsign[c] = EntryAsked(FirstOccurrence(TRUE, c))
    /\ \A c \in DOMAIN cty.prefix :
          cty.prefix[c] = EntryAsked(FirstOccurrence(FALSE, c))

\* KH6(2)[3] in a block of United States, then KH6 in a block of Hawaii:
\* the entry of the prefix KH6 is that of United States with the zones 2
\* and 3.
C20_Witness ==
    /\ Len(cty.blocks) = 2
    /\ cty.blocks[1].country = "United States"
    /\ cty.blocks[1].pfxs = << <<"K">>, <<"K", "H", "6", "(", "2", ")", "[", "3", "]">> >>
    /\ cty.blocks[2].country = "Hawaii"
    /\ cty.blocks[2].pfxs = << <<"K", "H", "6">>, <<"=", "K", "H", "6", "Z", "Z", "Z">> >>
    /\ cty.prefix[<<"K", "H", "6">>].country = "United States"
    /\ cty.prefix[<<"K", "H", "6">>].cq = <<"2">>
    /\ cty.prefix[<<"K", "H", "6">>].itu = <<"3">>
    /\ cty.prefix[<<"K", "H", "6">>].continent = "NA"
    /\ cty.exact_callsign[<<"K", "H", "6", "Z", "Z", "Z">>].country = "Hawaii"

\* ---------------------------------------------------------------- C21

\* The lines of a file are well formed from line i on: country lines that
\* end with ':' and have exactly 8 fields, each followed by alias lines
\* that end with ',' and a last one that ends with ';'.  inblock says that
\* line i is inside the alias block of a country.
RECURSIVE WellFormedFrom(_, _, _)
WellFormedFrom(lines, i, inblock) ==
    IF i > Len(lines) THEN ~inblock
    ELSE LET line == strip(lines[i])
         IN  IF ~inblock
             THEN /\ endswith(line, ":")
                  /\ Len(split(SubSeq(line, 1, Len(line) - 1), ":")) = 8
                  /\ WellFormedFrom(lines, i + 1, TRUE)
             ELSE \/ endswith(line, ";") /\ WellFormedFrom(lines, i + 1, FALSE)
                  \/ endswith(line, ",") /\ WellFormedFrom(lines, i + 1, TRUE)

\* C21: the load of a structurally malformed file fails: when __init__
\* returns, every country line had its ':' and exactly 8 fields, every alias
\* line ended with ',' or ';', and no country is left without its alias
\* block.
C21_MalformedInputFails ==
    cty.pc = "loaded" => WellFormedFrom(cty.lines, 1, FALSE) /\ cty.current_country = Null

\* What does hold: a country line without ':' at its end, one with less
\* than 8 fields, and an alias line that ends with neither ',' nor ';',
\* end the load with an exception.
C21_BadLineRaises ==
    \A i \in 1..Len(cty.lines) :
        LET line == strip(cty.lines[i])
            inblock == i > 1 /\ strip(cty.lines[i - 1])[Len(strip(cty.lines[i - 1]))] # ";"
        IN  \/ ~inblock /\ ~endswith(line, ":")
            \/ ~inblock /\ Len(split(SubSeq(line, 1, Len(line) - 1), ":")) < 8
            \/ inblock /\ ~endswith(line, ",") /\ ~endswith(line, ";")
            => cty.pc = "raised" /\ i = Len(cty.lines)

C21_WitnessBadLineRaises ==
    /\ Len(cty.lines) = 3
    /\ cty.lines[2] = <<" ", " ", " ", " ", "K", "H", "6", ",">>
    /\ cty.lines[3] = <<" ", " ", " ", " ", "K", "H", "6">>
    /\ cty.pc = "raised"
    /\ cty.exc = "AssertionError"


\* ------------------------------------------------------------------ C22

\* What the words of the texts are, by the words themselves.
HeadWords == { <<"C", "Q">>, <<"Q", "R", "Z">>, <<"D", "E">> }

IndicatorWords == HeadWords \cup { <<"D", "X">>, <<"0", "0", "0">> }

CallWords == { <<"K", "A", "1", "A", "B", "C">>, <<"K", "H", "6", "Z", "Z", "Z">>, <<"Z", "L", "4", "/", "K", "A", "1", "A", "B", "C">> }

GridWords == { <<"E", "N", "3", "4">>, <<"R", "R", "7", "3">> }

MarkerWords == { <<"?">>, <<"a", "1">> }

\* The tokens of the text that was classified, and those left when a last
\* token that is marginal decode info is taken off.
TokensOf(msg) == IF msg = Null THEN <<>> ELSE wsplit(msg[1])

LeftOf(msg) ==
    LET l == TokensOf(msg)
    IN  IF l # <<>> /\ l[Len(l)] \in MarkerWords THEN SubSeq(l, 1, Len(l) - 1) ELSE l

\* The tokens after the first word and one indicator, if there is one.
AfterIndicator(l) ==
    LET rest == Tail(l)
    IN  IF rest # <<>> /\ rest[1] \in IndicatorWords THEN Tail(rest) ELSE rest

HasSemicolon(msg) == msg # Null /\ \E i \in 1..Len(msg[1]) : msg[1][i] = ";"

\* The texts the classifier has to reject.
Rejected(msg) ==
    \/ msg = Null
    \/ msg = Some(<<>>)
    \/ HasSemicolon(msg)
    \/ LeftOf(msg) = <<>>
    \/ /\ LeftOf(msg)[1] \in HeadWords
       /\ \/ AfterIndicator(LeftOf(msg)) = <<>>
          \/ AfterIndicator(LeftOf(msg))[1] \notin CallWords

\* C22: the classifier returns an error reason exactly when the text is
\* empty, has a semicolon, has no token left when the marginal decode info
\* is taken off, or begins with CQ, QRZ or DE and has, after an optional
\* indicator, no next token that is a full callsign.
C22_ErrorExactlyWhenRejected ==
    cty.pc = "parsed" => (cty.pm.ERROR # Null <=> Rejected(cty.msg))

\* A CQ line with an indicator and a word that is no callsign was rejected.
C22_WitnessMalformedCq ==
    /\ cty.pc = "parsed"
    /\ cty.pm.ERROR # Null
    /\ ~HasSemicolon(cty.msg)
    /\ Len(LeftOf(cty.msg)) >= 3
    /\ LeftOf(cty.msg)[1] \in HeadWords
    /\ LeftOf(cty.msg)[2] \in IndicatorWords

\* ------------------------------------------------------------------ C23

\* What the country table says of the callsigns of the texts.
ExpectedInfo(call) ==
    IF call = <<"K", "H", "6", "Z", "Z", "Z">>
    THEN Some([CountryData["Hawaii"] EXCEPT !.cq = <<"2">>] @@ [country |-> "Hawaii"])
    ELSE IF call = <<"K", "A", "1", "A", "B", "C">>
    THEN Some(CountryData["United States"] @@ [country |-> "United States"])
    ELSE Null

\* pm has call for its caller and what the table says of it.
Resolved(pm, call) ==
    /\ pm.caller = Some(call)
    /\ IF ExpectedInfo(call) = Null
       THEN /\ pm.country = Null /\ pm.zone_cq = Null /\ pm.zone_itu = Null
            /\ pm.continent = Null /\ pm.lat = Null /\ pm.lon = Null /\ pm.gmtoff = Null
       ELSE LET e == ExpectedInfo(call)[1]
            IN  /\ pm.country = Some(e.country) /\ pm.zone_cq = Some(e.cq)
                /\ pm.zone_itu = Some(e.itu) /\ pm.continent = Some(e.continent)
                /\ pm.lat = Some(e.lat) /\ pm.lon = Some(e.lon)
                /\ pm.gmtoff = Some(e.gmtoff)

TypeName(tok) == IF tok = <<"C", "Q">> THEN "CQ" ELSE IF tok = <<"Q", "R", "Z">> THEN "QRZ" ELSE "DE"

\* C23: for a text that begins with CQ, QRZ or DE and is not rejected, the
\* type is the first token, at most one indicator is skipped, the next
\* token is the caller and is resolved by the country table; a callsign
\* after it is the peer and a grid after the peer the grid, otherwise a grid
\* directly after the caller is the grid.
C23_CqLineFields ==
    cty.pc = "parsed" /\ ~Rejected(cty.msg) /\ LeftOf(cty.msg)[1] \in HeadWords =>
        LET r == AfterIndicator(LeftOf(cty.msg))
        IN  /\ cty.pm.ERROR = Null
            /\ cty.pm.mtype = TypeName(LeftOf(cty.msg)[1])
            /\ Resolved(cty.pm, r[1])
            /\ IF Len(r) >= 2 /\ r[2] \in CallWords
               THEN /\ cty.pm.peer = Some(r[2])
                    /\ cty.pm.grid = IF Len(r) >= 3 /\ r[3] \in GridWords
                                     THEN Some(r[3]) ELSE Null
               ELSE /\ cty.pm.peer = Null
                    /\ cty.pm.grid = IF Len(r) >= 2 /\ r[2] \in GridWords
                                     THEN Some(r[2]) ELSE Null

\* A CQ line with an indicator, a caller of the table, a peer and a grid.
C23_WitnessCqWithPeerAndGrid ==
    /\ cty.pc = "parsed"
    /\ cty.pm.ERROR = Null
    /\ cty.pm.mtype = "CQ"
    /\ LeftOf(cty.msg)[2] \in IndicatorWords
    /\ cty.pm.country # Null
    /\ cty.pm.peer # Null
    /\ cty.pm.grid # Null

\* ------------------------------------------------------------------ C24

\* C24: for a text that does not begin with CQ, QRZ or DE and whose first
\* two tokens are full callsigns, the type is the reply type (spelled REPLAY
\* by parse_wsjtx_decode_msg), the caller is the first token, resolved by
\* the country table, the peer the second, and the grid the third token
\* only if it is a grid and not RR73.
C24_ReplyFields ==
    cty.pc = "parsed" /\ ~HasSemicolon(cty.msg) /\ Len(LeftOf(cty.msg)) >= 2
        /\ LeftOf(cty.msg)[1] \in CallWords /\ LeftOf(cty.msg)[2] \in CallWords =>
            LET l == LeftOf(cty.msg)
            IN  /\ cty.pm.ERROR = Null
                /\ cty.pm.mtype = "REPLAY"
                /\ Resolved(cty.pm, l[1])
                /\ cty.pm.peer = Some(l[2])
                /\ cty.pm.grid = IF Len(l) >= 3 /\ l[3] \in GridWords \ { <<"R", "R", "7", "3">> }
                                 THEN Some(l[3]) ELSE Null

\* 'KA1ABC <call> RR73' was classified: a reply without a grid.
C24_WitnessReplyRR73 ==
    /\ cty.pc = "parsed"
    /\ cty.pm.mtype = "REPLAY"
    /\ cty.pm.caller = Some(<<"K", "A", "1", "A", "B", "C">>)
    /\ Len(LeftOf(cty.msg)) >= 3
    /\ LeftOf(cty.msg)[3] = <<"R", "R", "7", "3">>
    /\ cty.pm.grid = Null

\* ------------------------------------------------------------------ C25

\* pm has no identity: no caller, peer, grid and nothing of the table.
NoIdentity(pm) ==
    /\ pm.caller = Null /\ pm.peer = Null /\ pm.grid = Null
    /\ pm.country = Null /\ pm.zone_cq = Null /\ pm.zone_itu = Null
    /\ pm.continent = Null /\ pm.lat = Null /\ pm.lon = Null /\ pm.gmtoff = Null

\* C25, as stated: every text that is not empty, has no semicolon, does not
\* begin with CQ, QRZ or DE and has one token only or a first token that is
\* no full callsign is classified UNKNOWN, without identity and without
\* error.
C25_FreeTextIsUnknown ==
    cty.pc = "parsed" /\ cty.msg # Null /\ cty.msg # Some(<<>>) /\ ~HasSemicolon(cty.msg)
        /\ TokensOf(cty.msg) # <<>> /\ TokensOf(cty.msg)[1] \notin HeadWords
        /\ (Len(TokensOf(cty.msg)) = 1 \/ TokensOf(cty.msg)[1] \notin CallWords) =>
            /\ cty.pm.mtype = "UNKNOWN"
            /\ NoIdentity(cty.pm)
            /\ cty.pm.ERROR = Null

\* C25, amended: the same of the tokens that are left when a last token that
\* is marginal decode info is taken off, if there is one left.
C25_FreeTextWithTokenLeftIsUnknown ==
    cty.pc = "parsed" /\ cty.msg # Null /\ cty.msg # Some(<<>>) /\ ~HasSemicolon(cty.msg)
        /\ LeftOf(cty.msg) # <<>> /\ LeftOf(cty.msg)[1] \notin HeadWords
        /\ (Len(LeftOf(cty.msg)) = 1 \/ LeftOf(cty.msg)[1] \notin CallWords) =>
            /\ cty.pm.mtype = "UNKNOWN"
            /\ NoIdentity(cty.pm)
            /\ cty.pm.ERROR = Null

\* A callsign followed by marginal decode info only was classified.
C25_WitnessCallsignAlone ==
    /\ cty.pc = "parsed"
    /\ Len(TokensOf(cty.msg)) = 2
    /\ Len(LeftOf(cty.msg)) = 1
    /\ LeftOf(cty.msg)[1] \in CallWords
    /\ cty.pm.mtype = "UNKNOWN"
    /\ cty.pm.ERROR = Null

\* ------------------------------------------------------------------ C26

\* The text of the Decode telegram of a log entry, as handle_decode gives
\* it to the classifier.
TextOf(e) ==
    IF e.decode[1].message = Null THEN Some(<<>>) ELSE Some(StrOf(e.decode[1].message[1]))

\* The Decode telegram of a log entry is off air, not new, or has a text
\* the classifier has to reject.
Dropped(e) ==
    \/ e.decode[1].off_air # Some(0)
    \/ e.decode[1].is_new # Some(1)
    \/ Rejected(TextOf(e))

\* C26: every message on the queue has no error reason and comes from a
\* Decode telegram that was new and on air; a Decode telegram that is off
\* air, not new or rejected by the classifier has put nothing on the queue.
C26_QueueHoldsGoodDecodesOnly ==
    /\ \A k \in 1..Len(udp.msg_pipe) :
          LET m == udp.msg_pipe[k]
              e == udp.log[m.time]
          IN  /\ m.ERROR = Null
              /\ e.class = 2
              /\ e.handled
              /\ ~Dropped(e)
              /\ m.raw_message = TextOf(e)
    /\ \A i \in 1..Len(udp.log) :
          udp.log[i].class = 2 /\ Dropped(udp.log[i])
             => \A k \in 1..Len(udp.msg_pipe) : udp.msg_pipe[k].time # i

\* A Decode with a rejected text, one that is not new and a good one were
\* handled; the queue holds the message of the good one.
C26_WitnessOneOfThree ==
    /\ Len(udp.log) = 3
    /\ \A i \in 1..3 : udp.log[i].class = 2 /\ udp.log[i].handled
    /\ udp.log[1].decode[1].off_air = Some(0) /\ udp.log[1].decode[1].is_new = Some(1)
    /\ Rejected(TextOf(udp.log[1]))
    /\ udp.log[2].decode[1].is_new = Some(0)
    /\ ~Dropped(udp.log[3])
    /\ Len(udp.msg_pipe) = 1
    /\ udp.msg_pipe[1].time = 3
    /\ udp.msg_pipe[1].caller = Some(<<"K", "A", "1", "A", "B", "C">>)

\* ------------------------------------------------------------------ C27

\* A turn of the receive loop that handles a telegram of the class c.
Handles(c) ==
    /\ Len(udp'.log) = Len(udp.log) + 1
    /\ udp'.log[Len(udp'.log)].class = c
    /\ udp'.log[Len(udp'.log)].handled

\* C27: whenever the connector handles a Heartbeat telegram of the preferred
\* peer, it sends exactly one Heartbeat telegram to the address of the
\* preferred peer.
C27_HeartbeatAnswered ==
    [][Handles(0) =>
          /\ from_bytes(HeartbeatReply).err = NONE
          /\ from_bytes(HeartbeatReply).class = 0
          /\ udp'.adr = Some(udp'.log[Len(udp'.log)].address)
          /\ udp'.sendto = Append(udp.sendto, <<HeartbeatReply, udp'.adr[1]>>)
          /\ udp'.sent = udp.sent + 1]_vars

\* A Heartbeat was handled that came from the address set_peer made the
\* preferred one, not from the one heard first.
C27_WitnessAfterSetPeer ==
    /\ Len(udp.log) = 3
    /\ udp.log[3].class = 0
    /\ udp.log[3].handled
    /\ udp.log[3].address # udp.log[1].address
    /\ udp.sendto[Len(udp.sendto)][2] = udp.log[3].address

\* ------------------------------------------------------------------ C28

\* A call of set_peer, and the name it was called with.
SetPeerCalled == Len(udp'.set_peer) = Len(udp.set_peer) + 1

NameCalled == udp'.set_peer[Len(udp'.set_peer)]

\* C28: the preferred address is the source of the first telegram received
\* and changes only by set_peer with the name of a known id, to the address
\* of that id; set_peer with an unknown name leaves it; a telegram from
\* another address causes no heartbeat, no message on the queue and no
\* exit.
C28_OnlyPreferredPeerHandled ==
    [][/\ udp.adr = Null /\ udp'.adr # Null
          => /\ udp.log = <<>>
             /\ Len(udp'.log) = 1
             /\ udp'.adr = Some(udp'.log[1].address)
       /\ udp.adr # Null /\ udp'.adr # udp.adr
          => /\ SetPeerCalled
             /\ \E e \in udp.peer : e[1] = NameCalled /\ udp'.adr = Some(e[2])
       /\ SetPeerCalled /\ (\A e \in udp.peer : e[1] # NameCalled)
          => udp'.adr = udp.adr
       /\ Len(udp'.log) = Len(udp.log) + 1
             /\ udp'.adr # Some(udp'.log[Len(udp'.log)].address)
          => /\ udp'.sendto = udp.sendto
             /\ udp'.sent = udp.sent
             /\ udp'.msg_pipe = udp.msg_pipe
             /\ udp'.pc # "exited"]_vars

\* set_peer was called with a name that is not known, and then a Close came
\* from another address than the preferred one: the loop goes on.
C28_WitnessCloseFromOther ==
    /\ udp.set_peer # <<>>
    /\ \A e \in udp.peer : e[1] # udp.set_peer[1]
    /\ Len(udp.log) = 3
    /\ udp.log[3].class = 6
    /\ udp.log[3].err = NONE
    /\ ~udp.log[3].handled
    /\ udp.adr = Some(udp.log[1].address)
    /\ udp.pc = "running"

\* ------------------------------------------------------------------ C29

\* The process is through: both threads have ended.
Terminated == proc.main = "terminated"

\* C29, as stated: when a Close telegram of the preferred peer is handled,
\* the receive loop stops and the whole process ends in the end, the sender
\* thread included.
C29_CloseEndsProcess ==
    (udp.pc = "exited") ~> (Terminated /\ proc.ts.pc = "returned")

\* What holds: after the Close the receive loop takes no further turn, and
\* the sender thread never returns, so the process never ends; only a
\* KeyboardInterrupt in the loop makes job_done true.
C29_CloseLeavesSenderRunning ==
    /\ udp.pc = "exited" => ~ENABLED UdpReceive /\ ~proc.job_done
                               /\ proc.ts.pc # "returned" /\ ~Terminated
    /\ proc.ts.pc = "returned" => proc.job_done /\ udp.exc = "KeyboardInterrupt"

\* The Close was handled and the sender thread posted a batch afterwards.
C29_WitnessPostAfterClose ==
    /\ udp.pc = "exited"
    /\ proc.main = "shutdown"
    /\ udp.log[Len(udp.log)].class = 6
    /\ Len(proc.posted) = 1
    /\ proc.ts.pc = "sleep"
    /\ proc.ts.slept = 1

\* ------------------------------------------------------------------ C30

\* The messages of a list of batches, one after the other.
RECURSIVE Flat(_)
Flat(batches) == IF batches = <<>> THEN <<>> ELSE Head(batches) \o Flat(Tail(batches))

\* Every message that was put on the queue, where it is now: in a batch
\* that was posted, in the list ml of the sender, or still on the queue.
Delivery == Flat(proc.posted) \o proc.ts.ml \o udp.msg_pipe

\* The turns of the receive loop that put a message on the queue.
PutTimes ==
    {i \in 1..Len(udp.log) :
        udp.log[i].class = 2 /\ udp.log[i].handled /\ ~Dropped(udp.log[i])}

\* C30: the sender drains the queue once per SENDING_PERIOD and posts what
\* it drained as one batch; whatever the interleaving of put and get, every
\* message is in at most one batch, once, and the messages are in the order
\* of their puts within and across the batches.
C30_BatchesInPutOrder ==
    /\ \A i, j \in 1..Len(Delivery) : i < j => Delivery[i].time < Delivery[j].time
    /\ {Delivery[i].time : i \in 1..Len(Delivery)} = PutTimes
    /\ \A k \in 1..Len(proc.posted) : proc.posted[k] # <<>>
    /\ proc.ts.pc \in {"sleep", "returned"} => proc.ts.ml = <<>>
    /\ proc.ts.pc \in {"drain", "post"} => proc.ts.slept = 0

\* Two batches were posted: the first with the messages of the first two
\* datagrams, the second with that of the third.
C30_WitnessTwoBatches ==
    /\ Len(proc.posted) = 2
    /\ Len(proc.posted[1]) = 2
    /\ proc.posted[2][1].time = 3

\* ------------------------------------------------------------------ C31

\* The forwarder is through: both of its threads have ended.
FwdTerminated == proc.main = "terminated" /\ proc.ts.pc = "returned"

\* C31, as stated: once KeyboardInterrupt has set job_done, the writer
\* thread leaves its loop, the join of the main thread returns and the
\* process ends in the end, whether the queue is empty at that moment or
\* not.
C31_InterruptEndsForwarder ==
    (proc.job_done /\ proc.main = "join") ~> FwdTerminated

\* What holds: the writer thread tests job_done only between two items.
\* A thread that waits in dataq.get() on an empty queue when the flag is
\* set waits for ever, since main() puts nothing after the interrupt: no
\* step is left and the process does not end.  The thread has returned
\* only where it found the flag set at its test.
C31_WriterWaitsOnEmptyQueue ==
    /\ (proc.job_done /\ proc.ts.pc = "get" /\ proc.tq = <<>>) =>
          ~ENABLED NextFwd /\ proc.main = "join"
    /\ proc.ts.pc = "returned" => proc.job_done
    /\ proc.main = "terminated" => proc.job_done /\ proc.ts.pc = "returned"

\* The interrupt came while data had been forwarded and the thread was
\* waiting for more: main() waits in join, the thread in get.
C31_WitnessInterruptedWhileWaiting ==
    /\ proc.job_done
    /\ proc.main = "join"
    /\ proc.ts.pc = "get"
    /\ proc.tq = <<>>
    /\ Len(proc.stdout) = 2

\* ------------------------------------------------------------------ C32

\* The list short is the beginning of the list long.
BeginsWith(long, short) ==
    /\ Len(short) <= Len(long)
    /\ \A k \in 1..Len(short) : long[k] = short[k]

\* The bucket now is bucket before with, possibly, more counted: no total
\* and no count is smaller, no key of a map is gone.
Grown(before, now) ==
    /\ now.total >= before.total
    /\ \A field \in {"countries", "cqs"} :
          \A k \in DOMAIN before[field] :
              k \in DOMAIN now[field] /\ now[field][k] >= before[field][k]

\* C32, as stated: across the steps of any sequence of ingests of a
\* (monitor, band), batches over several minutes or hours and failing
\* Persistence Port reads included, a stored minute or hour bucket stays
\* stored, its total never decreases and it is never replaced by a bucket
\* that omits messages counted before.
C32_TotalsMonotone ==
    [][/\ \A before \in tb_minutes : \E now \in tb_minutes' :
              /\ SameKey(before, now)
              /\ Grown(before, now)
              /\ BeginsWith(now.messages, before.messages)
       /\ \A before \in tb_hours : \E now \in tb_hours' :
              SameKey(before, now) /\ Grown(before, now)]_vars

\* What holds: a minute bucket is replaced by a smaller one only by a
\* write, of a group or of the idle record, whose read of the minute
\* returned nothing although the bucket was stored, and an hour bucket only by a write for an hour that the read of
\* the hours did not return; as long as every read returns the buckets
\* stored for the keys written, the buckets only grow.
C32_MonotoneWhereReadsReturnTheBucket ==
    [][/\ \A before \in tb_minutes : \E now \in tb_minutes' :
              /\ SameKey(before, now)
              /\ \/ Grown(before, now) /\ BeginsWith(now.messages, before.messages)
                 \/ /\ frame["h1"].pc \in {"write_minute", "idle_write_minute"}
                    /\ frame["h1"].recs = {}
       /\ \A before \in tb_hours : \E now \in tb_hours' :
              /\ SameKey(before, now)
              /\ \/ Grown(before, now)
                 \/ /\ frame["h1"].pc \in {"write_hour", "idle_write_hour"}
                    /\ \A rec \in frame["h1"].hr_db : rec.ctime # before.ctime]_vars

\* A stored minute bucket of two messages was read as missing and has been
\* replaced by the group of the batch, of one message.
C32_WitnessBucketReplaced ==
    /\ faults = 1
    /\ \E rec \in frame["h1"].pre_minutes : \E now \in tb_minutes :
          SameKey(rec, now) /\ rec.total = 2 /\ now.total = 1

\* ------------------------------------------------------------------ C33

\* The sum of the values of a counter map.
RECURSIVE SumCounts(_)
SumCounts(d) ==
    IF DOMAIN d = {} THEN 0
    ELSE LET k == CHOOSE x \in DOMAIN d : TRUE
         IN  d[k] + SumCounts([x \in DOMAIN d \ {k} |-> d[x]])

\* C33: in every state of any sequence of ingests every stored minute
\* bucket is consistent in itself: its total is the length of its message
\* list and the sum of its caller map, every message of the list has a
\* caller and a capture time inside the minute of the bucket, and its
\* country map and its CQ-zone map each sum to at most the total.
C33_MinuteBucketConsistent ==
    \A rec \in tb_minutes :
        /\ rec.total = Len(rec.messages)
        /\ rec.total = SumCounts(rec.callers)
        /\ \A k \in 1..Len(rec.messages) :
              /\ rec.messages[k].caller # NONE
              /\ rec.ctime <= rec.messages[k].gtime
              /\ rec.messages[k].gtime < rec.ctime + MINUTE
        /\ SumCounts(rec.countries) <= rec.total
        /\ SumCounts(rec.cqs) <= rec.total

\* A batch of a message with a caller and no country and of a message
\* without a caller was merged into the stored bucket of the minute of the
\* first: the bucket holds two messages and counts no country.
C33_WitnessMergedBucket ==
    /\ Returned
    /\ Len(frame["h1"].data) = 2
    /\ \E k \in 1..2 : frame["h1"].data[k].caller = NONE
    /\ \E old \in frame["h1"].pre_minutes, rec \in tb_minutes :
          /\ SameKey(old, rec)
          /\ old.total = 1
          /\ rec.total = 2
          /\ SumCounts(rec.countries) < rec.total

\* ------------------------------------------------------------------ C34

\* save_monitor_data as one function of the tables, for a batch that has
\* a message with a caller and a Persistence Port that succeeds: the
\* tables after the loop over the minutes of the batch ...
RECURSIVE MinutesAfter(_, _, _, _, _, _)
MinutesAfter(b, tbm, monitor, band, minutes, i) ==
    IF i > Len(minutes) THEN tbm
    ELSE LET r == RoundGroup(minutes[i])
             recs == fetch_in_minutes(b, tbm, monitor, band, r.mt, r.mt, "ok")
             rec == IF recs = {} THEN Minutes_Record(monitor, band, r)
                    ELSE MergeMinute(CHOOSE dbrec \in recs : TRUE, r)
         IN  MinutesAfter(b, db_upsert(b, tbm, rec, "ok").tb, monitor, band, minutes, i + 1)

\* ... and after the loop over the hours of hr_nm.
RECURSIVE HoursAfter(_, _, _, _, _)
HoursAfter(b, tbh, hr_db, nm, i) ==
    IF i > Len(nm) THEN tbh
    ELSE LET c == nm[i]
             found == {rec \in hr_db : rec.ctime = c.ctime}
             data == IF found = {} THEN c ELSE MergeHour(CHOOSE rec \in found : TRUE, c)
         IN  HoursAfter(b, db_upsert(b, tbh, data, "ok").tb, hr_db, nm, i + 1)

Ingested(b, tables, monitor, band, data) ==
    LET g == GroupMessages(data)
        rounded == [i \in 1..Len(g.minutes) |-> RoundGroup(g.minutes[i])]
        win == HourWindow(g.m_begin, g.m_end)
        hr_db == fetch_in_hours(b, tables.hours, monitor, band, win.begin, win.end, "ok")
    IN  [minutes |-> MinutesAfter(b, tables.minutes, monitor, band, g.minutes, 1),
         hours   |-> HoursAfter(b, tables.hours, hr_db,
                                NewHours(monitor, band, rounded), 1)]

HasCaller(data) == \E k \in 1..Len(data) : data[k].caller # NONE

\* The function is the call: whenever a call for a batch with a caller
\* has returned, the tables are those the function gives for the tables the
\* call found.
IngestedIsTheCall ==
    (Returned /\ HasCaller(frame["h1"].data)) =>
        [minutes |-> tb_minutes, hours |-> tb_hours]
          = Ingested(backend, [minutes |-> frame["h1"].pre_minutes,
                               hours |-> frame["h1"].pre_hours],
                     frame["h1"].monitor, frame["h1"].band, frame["h1"].data)

\* The counts of the buckets of a table: the keys with total and counter
\* maps, without message list and mean.
MinuteCounts(tb) ==
    {[ctime |-> rec.ctime, total |-> rec.total, countries |-> rec.countries,
      cqs |-> rec.cqs, callers |-> rec.callers] : rec \in tb}
HourCounts(tb) ==
    {[ctime |-> rec.ctime, total |-> rec.total, countries |-> rec.countries,
      cqs |-> rec.cqs] : rec \in tb}

\* Handler h1 has served exactly two calls, both for one (monitor, band)
\* and both with a message with a caller: batch A, then batch B.
BatchA == frame["h1"].last.data
BatchB == frame["h1"].data
ServedAThenB ==
    /\ Returned
    /\ frame["h1"].last.called
    /\ frame["h1"].last.monitor = frame["h1"].monitor
    /\ frame["h1"].last.band = frame["h1"].band
    /\ work = Len(BatchA) + Len(BatchB)
    /\ HasCaller(BatchA)
    /\ HasCaller(BatchB)

\* The tables after B, then A, from the empty store.
BThenA ==
    Ingested(backend,
             Ingested(backend, [minutes |-> {}, hours |-> {}],
                      frame["h1"].monitor, frame["h1"].band, BatchB),
             frame["h1"].monitor, frame["h1"].band, BatchA)

\* C34, as stated: for two batches A and B of one (monitor, band), each
\* with a message with a caller, ingesting A then B and ingesting B then A
\* give minute and hour buckets with the same totals and the same country,
\* CQ-zone and caller maps.
C34_OrderIndependent ==
    ServedAThenB =>
        /\ MinuteCounts(tb_minutes) = MinuteCounts(BThenA.minutes)
        /\ HourCounts(tb_hours) = HourCounts(BThenA.hours)

\* What holds: the counts of the minute buckets do not depend on the
\* order, and those of the hour buckets do not when each batch lies in one
\* hour.
C34_OrderIndependentWithinAnHour ==
    ServedAThenB =>
        /\ MinuteCounts(tb_minutes) = MinuteCounts(BThenA.minutes)
        /\ (Cardinality(TouchedHours(BatchA)) = 1 /\ Cardinality(TouchedHours(BatchB)) = 1)
              => HourCounts(tb_hours) = HourCounts(BThenA.hours)

\* A and B share a minute and differ, and B has a second minute of the
\* same hour.
C34_WitnessSharedMinute ==
    /\ ServedAThenB
    /\ BatchA # BatchB
    /\ Len(BatchB) = 2
    /\ TouchedMinutes(BatchA) \subseteq TouchedMinutes(BatchB)
    /\ Cardinality(TouchedMinutes(BatchB)) = 2
    /\ Cardinality(TouchedHours(BatchB)) = 1

\* ------------------------------------------------------------------ C35

\* C35, as stated: after any sequence of ingests the mean SNR stored in a
\* minute bucket is the rounded arithmetic mean of the SNRs of the messages
\* of its list, however the messages were split into batches.
C35_MeanOfAllMessages ==
    \A rec \in tb_minutes : rec.total > 0 => rec.snr = MeanSnr(rec.messages)

\* What holds: a bucket that one ingest wrote as new has the rounded mean
\* of its messages; a merged bucket has the rounded weighted mean of the
\* stored, rounded mean and of the rounded mean of the group, which is within
\* one of the mean of all messages for the batches of this specification.
C35_MeanOfRoundedMeans ==
    /\ \A rec \in tb_minutes :
          /\ rec.total > 0 => rec.snr - MeanSnr(rec.messages) \in {-1, 0, 1}
          /\ (rec.total > 0 /\ ~\E old \in frame["h1"].pre_minutes : SameKey(old, rec))
                => rec.snr = MeanSnr(rec.messages)
    /\ Returned =>
          \A old \in frame["h1"].pre_minutes, rec \in tb_minutes :
              ( /\ SameKey(old, rec)
                /\ rec.monitor = frame["h1"].monitor
                /\ GroupOf(frame["h1"].data, rec.ctime) # <<>> ) =>
                  LET g == GroupOf(frame["h1"].data, rec.ctime)
                  IN  rec.snr = PyRound(old.snr * old.total + MeanSnr(g) * Len(g),
                                        old.total + Len(g))

\* The messages -4, -5 were stored by one ingest with the mean -4, and a
\* further -5 was merged: the bucket holds -4 where the mean of the three
\* messages rounds to -5.
C35_WitnessDrift ==
    /\ Returned
    /\ \E rec \in tb_minutes :
          /\ rec.total = 3
          /\ rec.snr = -4
          /\ MeanSnr(rec.messages) = -5

\* ------------------------------------------------------------------ C36

\* The rows of a table that belong to the (monitor, band) of the call of
\* handler h1, and the others.
OwnRows(tb) ==
    {row \in tb : row.monitor = frame["h1"].monitor /\ row.band = frame["h1"].band}
OtherRows(tb) == tb \ OwnRows(tb)

\* The buckets of the other keys are as the call found them.
OthersUntouched ==
    /\ OtherRows(tb_minutes) = OtherRows(frame["h1"].pre_minutes)
    /\ OtherRows(tb_hours) = OtherRows(frame["h1"].pre_hours)

\* The buckets of the key of the call are what the call gives on a store
\* that holds the buckets of this key only.
OwnResultAlone ==
    LET alone == Ingested(backend,
                          [minutes |-> OwnRows(frame["h1"].pre_minutes),
                           hours |-> OwnRows(frame["h1"].pre_hours)],
                          frame["h1"].monitor, frame["h1"].band, frame["h1"].data)
    IN  /\ OwnRows(tb_minutes) = alone.minutes
        /\ OwnRows(tb_hours) = alone.hours

\* C36, as stated: an ingest for one (monitor, band) leaves every bucket
\* of any other key unchanged, and its own result does not depend on the
\* buckets of other keys: two monitors with messages in the same minute
\* each end with their own minute and hour bucket holding their own counts.
C36_KeysIsolated ==
    /\ frame["h1"].pc # "idle" => OthersUntouched
    /\ (Returned /\ HasCaller(frame["h1"].data)) => OwnResultAlone

\* What holds: no ingest changes a bucket of another key; on DynamoDB the
\* result does not depend on the other keys, and on sqlite it does not as
\* long as no other key has a bucket with a ctime the call writes.
C36_IsolatedUnlessCtimeShared ==
    /\ frame["h1"].pc # "idle" => OthersUntouched
    /\ ( /\ Returned
         /\ HasCaller(frame["h1"].data)
         /\ \/ backend = "dynamodb"
            \/ /\ \A row \in OtherRows(frame["h1"].pre_minutes) :
                      row.ctime \notin TouchedMinutes(frame["h1"].data)
               /\ \A row \in OtherRows(frame["h1"].pre_hours) :
                      row.ctime \notin TouchedHours(frame["h1"].data) )
       => OwnResultAlone

\* On DynamoDB two monitors have each a minute bucket and an hour bucket
\* of the same minute and hour, each with the counts of its own batch.
C36_WitnessTwoMonitorsOneMinute ==
    /\ Returned
    /\ backend = "dynamodb"
    /\ \E a, b \in tb_minutes :
          /\ a.monitor = "ft8mon" /\ b.monitor = "testStation"
          /\ a.ctime = b.ctime
          /\ a.total = 2 /\ b.total = 1
    /\ \E a, b \in tb_hours :
          /\ a.monitor = "ft8mon" /\ b.monitor = "testStation"
          /\ a.ctime = b.ctime
          /\ a.total = 2 /\ b.total = 1

\* ------------------------------------------------------------------ C37

\* The types the classifier gives to a text with a caller.
CallerTypes == {"CQ", "QRZ", "DE", "REPLAY"}

C37_UnknownWithCallerBeforeOtherToken ==
    (cty.pc = "parsed" /\ cty.pm.ERROR = Null) =>
        /\ cty.pm.mtype \in CallerTypes \cup {"UNKNOWN"}
        /\ cty.pm.mtype \in CallerTypes => cty.pm.caller # Null
        /\ cty.pm.mtype = "UNKNOWN" =>
              /\ cty.pm.peer = Null
              /\ cty.pm.caller # Null <=>
                    /\ Len(LeftOf(cty.msg)) >= 2
                    /\ LeftOf(cty.msg)[1] \in CallWords
                    /\ LeftOf(cty.msg)[2] \notin CallWords
              /\ cty.pm.caller # Null => cty.pm.caller = Some(LeftOf(cty.msg)[1])
              /\ cty.pm.grid # Null =>
                    cty.pm.caller # Null /\ cty.pm.grid = Some(LeftOf(cty.msg)[2])

\* 'KA1ABC EN34' was classified: type UNKNOWN, with caller, country and
\* grid.
C37_WitnessUnknownWithCaller ==
    /\ cty.pc = "parsed"
    /\ cty.pm.ERROR = Null
    /\ cty.pm.mtype = "UNKNOWN"
    /\ cty.pm.caller = Some(<<"K", "A", "1", "A", "B", "C">>)
    /\ cty.pm.grid = Some(<<"E", "N", "3", "4">>)
    /\ cty.pm.country # Null

\* ------------------------------------------------------------------ C38

\* The connector has handled a Heartbeat telegram.
HeartbeatHandled ==
    \E i \in 1..Len(udp.log) : udp.log[i].class = 0 /\ udp.log[i].handled

\* A turn of the receive loop that handles a telegram that is no
\* Heartbeat.
HandlesOther ==
    /\ Len(udp'.log) = Len(udp.log) + 1
    /\ udp'.log[Len(udp'.log)].class # 0
    /\ udp'.log[Len(udp'.log)].handled

\* C38, as stated: once the connector has handled a Heartbeat telegram,
\* handling a telegram that is no Heartbeat sends no heartbeat.
C38_NoHeartbeatAfterFirstSeen ==
    [][(HeartbeatHandled /\ HandlesOther) =>
          udp'.sent = udp.sent /\ udp'.sendto = udp.sendto]_vars

\* What holds: heartbeat_seen is never set, so every telegram the
\* connector handles, of whatever class and whatever came before, is
\* answered with one heartbeat to the preferred address.
C38_EveryHandledTelegramAnswered ==
    [][/\ ~udp.heartbeat_seen /\ ~udp'.heartbeat_seen
       /\ (Len(udp'.log) = Len(udp.log) + 1 /\ udp'.log[Len(udp'.log)].handled) =>
             /\ udp'.sent = udp.sent + 1
             /\ udp'.sendto = Append(udp.sendto, <<HeartbeatReply, udp'.adr[1]>>)]_vars

\* A Heartbeat and then a Decode of the preferred peer were handled, and
\* two heartbeats were sent.
C38_WitnessHeartbeatThenDecode ==
    /\ Len(udp.log) = 2
    /\ udp.log[1].class = 0 /\ udp.log[1].handled
    /\ udp.log[2].class = 2 /\ udp.log[2].handled
    /\ udp.sent = 2

\* ------------------------------------------------------------------ C39

\* The message of the n-th turn of the receive loop is on the queue, and
\* it is in a batch that was posted to the web server.
Queued(n) == \E k \in 1..Len(udp.msg_pipe) : udp.msg_pipe[k].time = n
Posted(n) == \E k \in 1..Len(Flat(proc.posted)) : Flat(proc.posted)[k].time = n

\* It is in a batch whose POST failed.
PostFailed(n) == \E k \in 1..Len(Flat(proc.failed)) : Flat(proc.failed)[k].time = n

\* C39, as stated: with the sender thread scheduled fairly, every message
\* put on the queue is in the end in a batch posted to the web server, also
\* when it is still queued at a KeyboardInterrupt or a Close and when the
\* POST of its batch failed.
C39_EveryMessagePosted ==
    \A n \in 1..MaxDatagrams : Queued(n) ~> Posted(n)

\* What holds: a message on the queue is in the end given to handle_msg,
\* once, in a batch whose POST succeeds or fails, unless a
\* KeyboardInterrupt ends the sender first; after a Close the sender goes
\* on and the message is handed over.
C39_HandedOverUnlessInterrupted ==
    \A n \in 1..MaxDatagrams : Queued(n) ~> (Posted(n) \/ PostFailed(n) \/ proc.job_done)

\* The sender has returned after a KeyboardInterrupt while a message was
\* on the queue, and the batch of another message had failed.
C39_WitnessLeftOnQueue ==
    /\ proc.ts.pc = "returned"
    /\ proc.main = "terminated"
    /\ udp.msg_pipe # <<>>
    /\ proc.failed # <<>>
    /\ proc.posted = <<>>
====
